---- MODULE Spec2Model ----
(***************************************************************************)
(* Verification model of the Aria voice-scheduling backend:                *)
(*   - the CSRF state store            (app/calendar_service.py 56-88)      *)
(*   - the OAuth routes                (app/routes/auth.py)                *)
(*   - the multi-tenant calendar service and its default credential slot   *)
(*                                     (app/calendar_service.py 152-330)   *)
(*   - the schedule-event tool route   (app/routes/tools.py)               *)
(*                                                                         *)
(* Three specifications share the module:                                  *)
(*   Spec       threads running /auth/connect, /auth/callback and direct   *)
(*              validate_and_consume_state calls against one token map     *)
(*   SpecSvc    threads calling the GoogleCalendarService methods          *)
(*   SpecTools  schedule-event tool requests                               *)
(***************************************************************************)
EXTENDS Integers, Sequences, FiniteSets, TLC

(***************************************************************************)
(* Bounds of the model.                                                    *)
(***************************************************************************)
\* threads serving requests
NumThreads == 2
\* requests and clock advances of one run of the auth routes
MaxEvents == 3
\* calls and credential expiries of one run of the service and of the tool route
MaxCalls == 2

(***************************************************************************)
(* Program constants.                                                      *)
(***************************************************************************)
STATE_TTL_SECONDS == 600

Threads == 1..NumThreads
NoThread == 0

(***************************************************************************)
(* Strings are sequences of one-character strings, so that the email       *)
(* pattern can be run on them.  None is a value no string equals.          *)
(***************************************************************************)
None == <<"None">>
EmptyStr == <<>>
DEFAULT_EMAIL == <<"d", "e", "f", "a", "u", "l", "t">>
Alice == <<"a", "l", "@", "x", ".", "i", "o">>
Bob == <<"b", "o", "b", "@", "e", "x", ".", "c", "o">>
Tenants == {Alice, Bob}

(***************************************************************************)
(* CSRF tokens.  secrets.token_urlsafe(32) is modelled as drawing the next *)
(* token of 1..MaxEvents, never one drawn before (256 bits of entropy).    *)
(* Token 0 is the empty string; Forged is a token the server never issues. *)
(***************************************************************************)
EmptyToken == 0
Forged == MaxEvents + 1
TokenInputs(issued) == (0..issued) \cup {Forged}
\* the aria_oauth_state cookie a callback request carries: the one matching its state,
\* none, or another one
CookieInputs(state) == {state, EmptyToken, Forged}

(***************************************************************************)
(* Credentials.  A stored blob either fails to deserialize ("corrupt") or  *)
(* yields google Credentials: tok is the access-token generation (0: no    *)
(* token), expired and refresh (has a refresh token) as in the library.    *)
(***************************************************************************)
NoCreds == [kind |-> "none", tok |-> 0, expired |-> FALSE, refresh |-> FALSE]
Creds(tok, expired, refresh) ==
    [kind |-> "creds", tok |-> tok, expired |-> expired, refresh |-> refresh]
CorruptBlob == [kind |-> "corrupt", tok |-> 0, expired |-> FALSE, refresh |-> FALSE]
\* google.oauth2.credentials.Credentials.valid: a token is held and it is not expired
CredsValid(c) == c.kind = "creds" /\ c.tok > 0 /\ ~c.expired
\* what a code exchange yields (access_type=offline, prompt=consent)
ExchangedCreds == Creds(2, FALSE, TRUE)

VARIABLES
    clock,          \* time.monotonic(), in seconds
    pending,        \* _pending_states: token -> expiry
    issued,         \* number of tokens drawn so far
    statesLock,     \* _states_lock: the thread holding it, or NoThread
    th,             \* per thread: position and locals of the call it runs
    users,          \* the users table: email -> stored credential blob
    defaultCreds,   \* GoogleCalendarService._default_creds
    defaultService, \* GoogleCalendarService._default_service (token generation it was built with)
    found,          \* history: tokens some validate call has found present
    trues,          \* history: per token, number of validate calls that returned True
    exchanges,      \* history: per token, number of callbacks that reached handle_callback
    unpruned,       \* history: the token map as it would be if issuance never pruned
    events,         \* number of requests, calls and clock advances so far
    svcLock,        \* GoogleCalendarService._lock: the thread holding it, or NoThread
    sv,             \* per thread: position and locals of the service method it runs
    rq,             \* per thread: position and locals of the tool request it handles
    bookings        \* number of rows in the bookings table

authState == <<clock, pending, issued, statesLock, th, found, trues, exchanges, unpruned>>
authVars == <<authState, events>>
slotVars == <<defaultCreds, defaultService>>
svcVars == <<svcLock, sv>>
toolVars == <<rq, bookings>>
vars == <<authVars, users, slotVars, svcVars, toolVars>>

(***************************************************************************)
(* The CSRF state store: pure parts of _issue_state_token and              *)
(* validate_and_consume_state.                                             *)
(***************************************************************************)
\* (variant: an entry counts as expired already at its expiry instant)
IsExpired_ge(now, expiry) == now >= expiry

\* `now > exp`: the comparison both functions use for "expired"
IsExpired(now, expiry) == now > expiry

\* (variant: issuance never prunes)
PruneExpired_none(map, now) == map

\* the prune loop of _issue_state_token: delete every entry with now > exp
PruneExpired(map, now) ==
    [k \in {x \in DOMAIN map : ~IsExpired(now, map[x])} |-> map[k]]

\* the critical section of _issue_state_token: prune, then register token -> now + TTL
RegisterToken(map, token, now) ==
    LET pruned == PruneExpired(map, now)
    IN  [k \in DOMAIN pruned \cup {token} |->
            IF k = token THEN now + STATE_TTL_SECONDS ELSE pruned[k]]

\* registration alone, `_pending_states[token] = now + _STATE_TTL_SECONDS`: what
\* issuance does to a map that is never pruned
RegisterOnly(map, token, now) ==
    [k \in DOMAIN map \cup {token} |->
        IF k = token THEN now + STATE_TTL_SECONDS ELSE map[k]]

\* `_pending_states.get(token)`: the expiry, or None
NoExpiry == -1
\* (variant: `.get(token, 0)`, a default in place of None)
LookupToken_default(map, token) == IF token \in DOMAIN map THEN map[token] ELSE 0

LookupToken(map, token) == IF token \in DOMAIN map THEN map[token] ELSE NoExpiry

\* (variant: the entry is not deleted)
ConsumeToken_keep(map, token) == map

\* `del _pending_states[token]` (of a key the map holds)
ConsumeToken(map, token) == [k \in DOMAIN map \ {token} |-> map[k]]

\* what validate_and_consume_state returns for its clock reading over a given map
ValidateOver(map, token, now) ==
    IF token \notin DOMAIN map THEN "False"
    ELSE IF IsExpired(now, map[token]) THEN "False" ELSE "True"

\* `with _states_lock:` may be entered by thread t
CanAcquire(lock, t) == lock = NoThread

(***************************************************************************)
(* The users table (app/database.py).                                      *)
(***************************************************************************)
\* INSERT or UPDATE of the row keyed by email
save_user_credentials(store, email, blob) ==
    [e \in DOMAIN store \cup {email} |-> IF e = email THEN blob ELSE store[e]]

(***************************************************************************)
(* GoogleCalendarService.handle_callback.  The outcome of the remote calls *)
(* and of the store write is the environment's choice:                     *)
(*   exchange_error  flow.fetch_token raises                               *)
(*   userinfo_error  the userinfo request raises                           *)
(*   ok              both succeed; email may be the empty string           *)
(*   store_error     save_user_credentials raises, nothing is committed    *)
(* Result: the return value and the store and default slot afterwards.     *)
(***************************************************************************)
Codes == {"good", "bad"}
ExchangeOutcomes(code) ==
    IF code = "bad"
    THEN {[kind |-> "exchange_error", email |-> EmptyStr]}
    ELSE [kind : {"exchange_error", "userinfo_error", "store_error"}, email : {EmptyStr}]
         \cup [kind : {"ok"}, email : Tenants \cup {EmptyStr}]
         \cup [kind : {"store_error"}, email : Tenants]

\* (variant: the email is returned although the store write failed)
handle_callback_unsaved(outcome, store, dcreds, dservice) ==
    IF outcome.kind \in {"ok", "store_error"} /\ outcome.email # EmptyStr
    THEN [ret |-> outcome.email,
          users |-> IF outcome.kind = "ok"
                    THEN save_user_credentials(store, outcome.email, ExchangedCreds)
                    ELSE store,
          default_creds |-> dcreds, default_service |-> dservice]
    ELSE [ret |-> None, users |-> store,
          default_creds |-> dcreds, default_service |-> dservice]

\* (variant: the exchanged credential is also promoted into the default slot)
handle_callback_promotes(outcome, store, dcreds, dservice) ==
    IF outcome.kind = "ok" /\ outcome.email # EmptyStr
    THEN [ret |-> outcome.email,
          users |-> save_user_credentials(store, outcome.email, ExchangedCreds),
          default_creds |-> ExchangedCreds, default_service |-> ExchangedCreds.tok]
    ELSE [ret |-> None, users |-> store,
          default_creds |-> dcreds, default_service |-> dservice]

handle_callback(outcome, store, dcreds, dservice) ==
    IF outcome.kind = "ok" /\ outcome.email # EmptyStr
    THEN [ret |-> outcome.email,
          users |-> save_user_credentials(store, outcome.email, ExchangedCreds),
          default_creds |-> dcreds, default_service |-> dservice]
    ELSE [ret |-> None, users |-> store,
          default_creds |-> dcreds, default_service |-> dservice]

(***************************************************************************)
(* /auth/callback: the first two disjuncts of the CSRF check (the third is *)
(* the validate_and_consume_state call).                                   *)
(***************************************************************************)
\* (variant: the state is not compared with the cookie)
StateCheckFails_nocookie(state, cookie) == state = EmptyToken

StateCheckFails(state, cookie) == state = EmptyToken \/ state # cookie

(***************************************************************************)
(* Threads of the auth specification.                                      *)
(***************************************************************************)
Idle ==
    [pc |-> "idle", op |-> "none", token |-> EmptyToken, cookie |-> EmptyToken,
     code |-> "none", now |-> 0, expiry |-> 0, hit |-> FALSE, ret |-> "unset",
     resp |-> 0, late |-> FALSE, exch |-> FALSE, email |-> None, sret |-> "unset"]

Bump(f, k) == [f EXCEPT ![k] = IF @ < 2 THEN @ + 1 ELSE @]

\* a thread that can take a request: it serves none, or has answered its last one
\* (whose locals and response stay visible until then)
Free(r) == r.pc \in {"idle", "done"}

\* the clock advances (by a second, by a whole TTL, or past it)
Tick ==
    /\ events < MaxEvents
    /\ events' = events + 1
    /\ \E d \in {1, STATE_TTL_SECONDS, STATE_TTL_SECONDS + 1} : clock' = clock + d
    /\ UNCHANGED <<pending, unpruned, issued, statesLock, th, found, trues, exchanges, users, slotVars, svcVars, toolVars>>

\* GET /auth/connect -> get_auth_url -> _issue_state_token: draw the token, read the clock
ConnectCall(t) ==
    /\ Free(th[t])
    /\ events < MaxEvents
    /\ events' = events + 1
    /\ issued' = issued + 1
    /\ th' = [th EXCEPT ![t] = [Idle EXCEPT !.pc = "i_lock", !.op = "connect",
                                           !.token = issued + 1, !.now = clock]]
    /\ UNCHANGED <<clock, pending, unpruned, statesLock, found, trues, exchanges, users, slotVars, svcVars, toolVars>>

\* `with _states_lock:` in _issue_state_token
IssueLock(t) ==
    /\ th[t].pc = "i_lock"
    /\ CanAcquire(statesLock, t)
    /\ statesLock' = t
    /\ th' = [th EXCEPT ![t].pc = "i_body"]
    /\ UNCHANGED <<clock, pending, unpruned, issued, found, trues, exchanges, events, users, slotVars, svcVars, toolVars>>

\* the critical section of _issue_state_token, then the redirect that sets the cookie
IssueBody(t) ==
    /\ th[t].pc = "i_body"
    /\ pending' = RegisterToken(pending, th[t].token, th[t].now)
    /\ unpruned' = RegisterOnly(unpruned, th[t].token, th[t].now)
    /\ statesLock' = IF statesLock = t THEN NoThread ELSE statesLock
    /\ th' = [th EXCEPT ![t].pc = "done", ![t].cookie = th[t].token, ![t].resp = 302]
    /\ UNCHANGED <<clock, issued, found, trues, exchanges, events, users, slotVars, svcVars, toolVars>>

\* where validate_and_consume_state returns to: its caller, or the rest of the callback
\* route's `if` (403 when it returned False, handle_callback otherwise)
AfterValidate(r, ret) ==
    IF r.op = "callback"
    THEN IF ret
         THEN [r EXCEPT !.ret = "True", !.pc = "cb_exchange"]
         ELSE [r EXCEPT !.ret = "False", !.pc = "done", !.resp = 403]
    ELSE [r EXCEPT !.ret = IF ret THEN "True" ELSE "False", !.pc = "done"]

\* an exception leaves validate_and_consume_state (and the route: a 500 response)
RaisedInValidate(r, exc) ==
    [r EXCEPT !.ret = exc, !.pc = "done", !.resp = IF r.op = "callback" THEN 500 ELSE 0]

\* entry of validate_and_consume_state: `if not token: return False`, else
\* `now = time.monotonic()`
ValidateEntry(r, now) ==
    IF r.token = EmptyToken
    THEN AfterValidate(r, FALSE)
    ELSE [r EXCEPT !.pc = "v_lock", !.now = now]

\* a direct call validate_and_consume_state(tok)
ValidateCall(t, tok) ==
    /\ Free(th[t])
    /\ events < MaxEvents
    /\ events' = events + 1
    /\ th' = [th EXCEPT ![t] = ValidateEntry([Idle EXCEPT !.op = "validate", !.token = tok,
                                                         !.late = (tok \in found)], clock)]
    /\ UNCHANGED <<clock, pending, unpruned, issued, statesLock, found, trues, exchanges, users, slotVars, svcVars, toolVars>>

\* `with _states_lock:` in validate_and_consume_state
ValidateLock(t) ==
    /\ th[t].pc = "v_lock"
    /\ CanAcquire(statesLock, t)
    /\ statesLock' = t
    /\ th' = [th EXCEPT ![t].pc = "v_body"]
    /\ UNCHANGED <<clock, pending, unpruned, issued, found, trues, exchanges, events, users, slotVars, svcVars, toolVars>>

\* the critical section of validate_and_consume_state, run by the lock's holder:
\*   expiry = _pending_states.get(token); if expiry is None: return False
\*   del _pending_states[token]        (KeyError if the key is missing)
\*   if now > expiry: return False
\* and, the lock released, return True
ValidateBody(t) ==
    /\ th[t].pc = "v_body"
    /\ LET token == th[t].token
           expiry == LookupToken(pending, token)
           ok == ~IsExpired(th[t].now, expiry)
           seen == [th[t] EXCEPT !.hit = TRUE, !.expiry = expiry]
           sret == ValidateOver(unpruned, token, th[t].now)
       IN  /\ IF expiry = NoExpiry
              THEN /\ th' = [th EXCEPT ![t] = [AfterValidate(th[t], FALSE) EXCEPT !.sret = sret]]
                   /\ UNCHANGED <<pending, found, trues>>
              ELSE IF token \notin DOMAIN pending
              THEN /\ th' = [th EXCEPT ![t] = [RaisedInValidate(seen, "KeyError") EXCEPT !.sret = sret]]
                   /\ UNCHANGED <<pending, found, trues>>
              ELSE /\ pending' = ConsumeToken(pending, token)
                   /\ found' = found \cup {token}
                   /\ th' = [th EXCEPT ![t] = [AfterValidate(seen, ok) EXCEPT !.sret = sret]]
                   /\ trues' = IF ok THEN Bump(trues, token) ELSE trues
           /\ unpruned' = ConsumeToken(unpruned, token)
    /\ statesLock' = IF statesLock = t THEN NoThread ELSE statesLock
    /\ UNCHANGED <<clock, issued, exchanges, events, users, slotVars, svcVars, toolVars>>

\* GET /auth/callback?code=..&state=.. with the cookie the client sends:
\* `if not state or state != aria_oauth_state or not validate_and_consume_state(state)`
CallbackCall(t, state, cookie, code) ==
    /\ Free(th[t])
    /\ events < MaxEvents
    /\ events' = events + 1
    /\ LET r == [Idle EXCEPT !.op = "callback", !.token = state, !.cookie = cookie,
                             !.code = code, !.late = (state \in found)]
       IN  th' = [th EXCEPT ![t] = IF StateCheckFails(state, cookie)
                                   THEN [r EXCEPT !.pc = "done", !.resp = 403]
                                   ELSE ValidateEntry(r, clock)]
    /\ UNCHANGED <<clock, pending, unpruned, issued, statesLock, found, trues, exchanges, users, slotVars, svcVars, toolVars>>

\* `email = calendar_service.handle_callback(code)`, then the response:
\* `if email:` 200 "Calendar Connected", else 400 "Authentication Failed"
CallbackExchange(t) ==
    /\ th[t].pc = "cb_exchange"
    /\ \E outcome \in ExchangeOutcomes(th[t].code) :
         LET r == handle_callback(outcome, users, defaultCreds, defaultService)
         IN  /\ users' = r.users
             /\ defaultCreds' = r.default_creds
             /\ defaultService' = r.default_service
             /\ th' = [th EXCEPT ![t].pc = "done", ![t].exch = TRUE, ![t].email = r.ret,
                                 ![t].resp = IF r.ret \notin {None, EmptyStr}
                                             THEN 200 ELSE 400]
    /\ exchanges' = Bump(exchanges, th[t].token)
    /\ UNCHANGED <<clock, pending, unpruned, issued, statesLock, found, trues, events, svcVars, toolVars>>

(***************************************************************************)
(* _EMAIL_RE = ^[a-zA-Z0-9_.+-]+@[a-zA-Z0-9-]+\.[a-zA-Z0-9-.]+$  and        *)
(* _EMAIL_RE.match(email), run on a string as Python's re runs it.          *)
(***************************************************************************)
Lower == {"a", "b", "c", "d", "e", "f", "g", "h", "i", "j", "k", "l", "m",
          "n", "o", "p", "q", "r", "s", "t", "u", "v", "w", "x", "y", "z"}
Upper == {"A", "B", "C", "D", "E", "F", "G", "H", "I", "J", "K", "L", "M",
          "N", "O", "P", "Q", "R", "S", "T", "U", "V", "W", "X", "Y", "Z"}
Digits == {"0", "1", "2", "3", "4", "5", "6", "7", "8", "9"}
Alnum == Lower \cup Upper \cup Digits
LocalChars == Alnum \cup {"_", ".", "+", "-"}      \* [a-zA-Z0-9_.+-]
DomainChars == Alnum \cup {"-"}                    \* [a-zA-Z0-9-]
TailChars == Alnum \cup {"-", "."}                 \* [a-zA-Z0-9-.]

AllIn(str, from, to, class) == \A k \in from..to : str[k] \in class

\* the body of the pattern matches str[1..n] exactly:
\*   local+ "@" domain+ "." tail+
AddressShape(str, n) ==
    \E i \in 2..n : \E j \in (i + 2)..(n - 1) :
        /\ AllIn(str, 1, i - 1, LocalChars)
        /\ str[i] = "@"
        /\ AllIn(str, i + 1, j - 1, DomainChars)
        /\ str[j] = "."
        /\ AllIn(str, j + 1, n, TailChars)

\* where `$` can match: at the end of the string, and just before a newline that
\* ends the string
DollarPositions(str) ==
    {Len(str)} \cup (IF Len(str) > 0 /\ str[Len(str)] = "\n" THEN {Len(str) - 1} ELSE {})

\* _EMAIL_RE.match(email) is not None
EMAIL_RE_match(str) == \E n \in DollarPositions(str) : AddressShape(str, n)

\* a test for None alone, in place of truthiness
Truthy_notNone(email) == email # None

\* Python truthiness of an Optional[str] argument: `if email:`
Truthy(email) == email # None /\ email # EmptyStr

(***************************************************************************)
(* GoogleCalendarService: clients and the pure parts of its methods.       *)
(***************************************************************************)
\* Optional[CalendarClient]: CalendarClient(creds, email), or None
NoClient == [some |-> FALSE, email |-> None, creds |-> NoCreds]
CalendarClient(creds, email) == [some |-> TRUE, email |-> email, creds |-> creds]

\* creds.refresh(Request()) when it succeeds: a new access token, not expired
Refreshed(c) == Creds(c.tok + 1, FALSE, c.refresh)

\* the refresh of a stored credential by thread t: the provider issues a new
\* access token on every refresh, so the tokens two calls obtain differ
RefreshedBy(c, t) == Creds(c.tok + t, FALSE, c.refresh)

\* `creds.expired and creds.refresh_token`
NeedsRefresh(c) == c.kind = "creds" /\ c.expired /\ c.refresh

\* an update that leaves a row alone once it holds a fresh credential
update_user_token_first(store, email, blob) ==
    IF email \in DOMAIN store /\ NeedsRefresh(store[email])
    THEN [store EXCEPT ![email] = blob] ELSE store

\* an UPDATE without its WHERE clause
update_user_token_all(store, email, blob) == [e \in DOMAIN store |-> blob]

\* an update that inserts the row when it is missing
update_user_token_upsert(store, email, blob) ==
    save_user_credentials(store, email, blob)

\* an update that persists nothing
update_user_token_lost(store, email, blob) == store

\* UPDATE users SET google_token_json = ? WHERE email = ?
update_user_token(store, email, blob) ==
    IF email \in DOMAIN store THEN [store EXCEPT ![email] = blob] ELSE store

\* an is_authenticated that refreshes whatever credential it holds
is_authenticated_body_eager(creds, service, refreshOk) ==
    IF creds.kind = "creds" /\ creds.refresh
    THEN [ret |-> TRUE, creds |-> Refreshed(creds), service |-> Refreshed(creds).tok]
    ELSE [ret |-> creds.kind = "creds" /\ CredsValid(creds),
          creds |-> creds, service |-> service]

\* an is_authenticated that answers for the held credential when the refresh fails
is_authenticated_body_lenient(creds, service, refreshOk) ==
    IF NeedsRefresh(creds) /\ refreshOk
    THEN [ret |-> TRUE, creds |-> Refreshed(creds), service |-> Refreshed(creds).tok]
    ELSE [ret |-> creds.kind = "creds", creds |-> creds, service |-> service]

\* the body of is_authenticated, run under self._lock; refreshOk is whether the
\* remote refresh succeeds if one is attempted.  Result: the return value and the
\* slot afterwards.
is_authenticated_body(creds, service, refreshOk) ==
    IF NeedsRefresh(creds)
    THEN IF refreshOk
         THEN [ret |-> CredsValid(Refreshed(creds)),
               creds |-> Refreshed(creds), service |-> Refreshed(creds).tok]
         ELSE [ret |-> FALSE, creds |-> creds, service |-> service]
    ELSE [ret |-> creds.kind = "creds" /\ CredsValid(creds),
          creds |-> creds, service |-> service]

\* GOOGLE_TOKEN_JSON: unset or empty, or a serialized credential
NoEnv == NoCreds

\* the slot as __init__ leaves it before _load_default_credentials runs
EmptySlot == [creds |-> NoCreds, service |-> 0, raised |-> FALSE]

\* a loader that lets the failure of a credential it cannot use escape
load_default_credentials_strict(token_json, refreshOk) ==
    IF token_json = NoEnv THEN EmptySlot
    ELSE IF token_json.kind = "corrupt" \/ (NeedsRefresh(token_json) /\ ~refreshOk)
    THEN [EmptySlot EXCEPT !.raised = TRUE]
    ELSE LET creds == IF NeedsRefresh(token_json) THEN Refreshed(token_json) ELSE token_json
         IN  IF CredsValid(creds)
             THEN [creds |-> creds, service |-> creds.tok, raised |-> FALSE]
             ELSE [EmptySlot EXCEPT !.raised = TRUE]

\* _load_default_credentials: `if token_json:`, then inside try/except Exception
\* deserialize, refresh if expired and refreshable, and `if creds.valid:` assign
\* the slot and build the service.  Result: the slot afterwards, and whether an
\* exception left the method.
load_default_credentials(token_json, refreshOk) ==
    IF token_json = NoEnv THEN EmptySlot
    ELSE IF token_json.kind = "corrupt" \/ (NeedsRefresh(token_json) /\ ~refreshOk)
    THEN EmptySlot
    ELSE LET creds == IF NeedsRefresh(token_json) THEN Refreshed(token_json) ELSE token_json
         IN  IF CredsValid(creds)
             THEN [creds |-> creds, service |-> creds.tok, raised |-> FALSE]
             ELSE EmptySlot

\* a resolve_client that serves every request from the default slot
ResolveRoute_default(email) == "default"

\* what resolve_client does with its argument: the tenant's client, or the default
ResolveRoute(email) == IF Truthy(email) THEN "tenant" ELSE "default"

\* a service thread between calls
SvIdle ==
    [pc |-> "idle", op |-> "none", email |-> None, via |-> "none", creds |-> NoCreds,
     blob |-> NoCreds, checked |-> FALSE, auth |-> FALSE, ret |-> NoClient,
     dbops |-> 0, writes |-> 0, refreshes |-> 0, raised |-> FALSE]

(***************************************************************************)
(* The tool route: payloads, and the pure parts of schedule_event.         *)
(***************************************************************************)
\* a tool call: tc["function"]["arguments"]; `email` is None when the arguments
\* carry no such key
ToolArgs(name, date, email) == [name |-> name, date |-> date, email |-> email]
NoToolCall == [present |-> FALSE, arguments |-> ToolArgs("", "", None)]
ToolCallOf(arguments) == [present |-> TRUE, arguments |-> arguments]

\* request bodies: message.toolCalls, message.toolCall, or the tool call itself
Body(toolCalls, toolCall, direct) ==
    [toolCalls |-> toolCalls, toolCall |-> toolCall, direct |-> direct]

extract_tool_call(body) ==
    IF Len(body.toolCalls) > 0 THEN body.toolCalls[1]
    ELSE IF body.toolCall.present THEN body.toolCall
    ELSE IF body.direct.present THEN body.direct
    ELSE NoToolCall

\* ScheduleEventArgs(**raw_args): `name`, `date`, `time` are required; keys the
\* model does not declare are ignored
NoArgs == [name |-> "", date |-> ""]
ScheduleEventArgs_raises(raw) == raw.name = "" \/ raw.date = ""
ScheduleEventArgs(raw) == [name |-> raw.name, date |-> raw.date]

\* parse_datetime raises ValueError on a date or time it cannot read
parse_datetime_raises(args) == args.date = "someday-ish"

\* parse_datetime on "in N days" / "after N days" with N beyond the calendar's
\* range: `now + datetime.timedelta(days=N)` raises OverflowError, outside every
\* try block of the function
FarFuture == "in 4000000 days"
parse_datetime_overflows(args) == args.date = FarFuture

\* outcomes of the refresh is_authenticated may attempt
RefreshChoices(creds) == IF NeedsRefresh(creds) THEN BOOLEAN ELSE {TRUE}

\* get_default_client with both of its critical sections: is_authenticated, then
\* CalendarClient(self._default_creds, email="default")
get_default_client(creds, service, refreshOk) ==
    LET a == is_authenticated_body(creds, service, refreshOk)
    IN  [client |-> IF a.ret THEN CalendarClient(a.creds, DEFAULT_EMAIL) ELSE NoClient,
         creds |-> a.creds, service |-> a.service]

\* GoogleCalendarService.check_conflicts / create_event, the legacy wrappers:
\* `client = self.get_default_client()`; `if not client: raise Exception("Not authenticated")`
NotAuthenticated == "Not authenticated"
legacy_call_raises(client) == ~client.some

\* where schedule_event runs a call: `await asyncio.to_thread(f, ...)` hands it to
\* a worker thread, a plain call in the `async def` runs on the event loop
OnEventLoop(site) == site \notin {"check_conflicts", "create_event", "log_booking"}

\* the request makes the remote calls `calls` at the call site `site`
Remote(r, site, calls) == IF OnEventLoop(site) THEN [r EXCEPT !.loop = @ \cup calls] ELSE r

\* the credential refresh get_default_client / is_authenticated attempts, if any
RefreshCalls(creds) == IF NeedsRefresh(creds) THEN {"refresh"} ELSE {}

\* the locals of available_slots' slot search; times are seconds of the
\* requested day, `available` holds the formatted start times, `prev` is the
\* cursor before the last iteration and `iters` the iterations run so far
NoSearch ==
    [period |-> "none", events |-> <<>>, busy |-> <<>>, search_start |-> 0,
     search_end |-> 0, current |-> 0, prev |-> 0, iters |-> 0, available |-> <<>>]

\* a request thread between requests; `raised` is the exception the last call
\* into calendar_service raised into the handler, `loop` the remote calls the
\* request has made on the event loop
ToolIdle ==
    [pc |-> "idle", raw |-> ToolArgs("", "", None), args |-> NoArgs, attempt |-> 0,
     lists |-> 0, inserts |-> 0, client |-> None, status |-> 0, result |-> "none",
     conflicts |-> "none", creates |-> 0, created |-> 0, logged |-> FALSE,
     stages |-> <<>>, raised |-> "none", loop |-> {}, route |-> "none",
     search |-> NoSearch]

\* the request enters a stage of the handler
Enter(r, stage) == [r EXCEPT !.stages = Append(@, stage)]

\* tool_response(tc_id, text) / JSONResponse(..., status_code)
Respond(r, status, result) ==
    [Enter(r, "respond") EXCEPT !.pc = "done", !.status = status, !.result = result]

\* an exception leaves the handler: the framework answers 500
Unhandled(r, exc) == [r EXCEPT !.pc = "done", !.status = 500, !.result = exc]

\* (variant: the conflict check is skipped)
AfterParseDatetime_skip(r) == [r EXCEPT !.pc = "s_create"]

\* parse_datetime returned: on to `# Check conflicts`
AfterParseDatetime(r) == [r EXCEPT !.pc = "s_conflicts"]

\* (variant: a failed conflict query ends the request)
AfterConflicts_failclosed(r, listed) ==
    IF listed = "busy" THEN Respond(r, 200, "conflict")
    ELSE IF listed = "error" THEN Respond(r, 200, "hiccup")
    ELSE [r EXCEPT !.pc = "s_create"]

\* lines 62-68: a conflict ends the request; no conflict, or an exception of the
\* query (logged), goes on to `# Create event with retry`
AfterConflicts(r, listed) ==
    IF listed = "busy" THEN Respond(r, 200, "conflict")
    ELSE [r EXCEPT !.pc = "s_create"]

\* (variant: the row is inserted twice)
log_booking_twice(rows, ok) == IF ok THEN rows + 2 ELSE rows

\* database.log_booking: one INSERT INTO bookings and a commit; when it raises
\* nothing is committed (ok is whether it succeeds)
log_booking(rows, ok) == IF ok THEN rows + 1 ELSE rows

\* (variant: no retry)
RetryAllowed_never(attempt) == FALSE

\* lines 102-105: `if attempt == 0: continue` inside `for attempt in range(2)`
RetryAllowed(attempt) == attempt = 0

(***************************************************************************)
(* State after construction.  _load_default_credentials leaves the default *)
(* slot empty or holding a valid credential and the service built from it. *)
(***************************************************************************)
DefaultSlotsAtStartup ==
    {<<NoCreds, 0>>, <<Creds(1, FALSE, TRUE), 1>>}

\* Which worker thread serves a request makes no difference: a request or
\* call goes to a thread that is free, and among the threads that have served
\* nothing yet to the first.
Unused(u) == th[u].pc = "idle" /\ sv[u].pc = "idle" /\ rq[u].pc = "idle"
Takes(t) == \A u \in Threads : u < t => ~Unused(u)

Init ==
    /\ clock = 0
    /\ pending = <<>>
    /\ unpruned = <<>>
    /\ issued = 0
    /\ statesLock = NoThread
    /\ th = [t \in Threads |-> Idle]
    /\ users = <<>>
    /\ \E s \in DefaultSlotsAtStartup : defaultCreds = s[1] /\ defaultService = s[2]
    /\ found = {}
    /\ trues = [k \in 0..Forged |-> 0]
    /\ exchanges = [k \in 0..Forged |-> 0]
    /\ events = 0
    /\ svcLock = NoThread
    /\ sv = [t \in Threads |-> SvIdle]
    /\ rq = [t \in Threads |-> ToolIdle]
    /\ bookings = 0

Next ==
    \/ Tick
    \/ \E t \in Threads : Takes(t) /\ ConnectCall(t)
    \/ \E t \in Threads : IssueLock(t)
    \/ \E t \in Threads : IssueBody(t)
    \/ \E t \in Threads : \E tok \in TokenInputs(issued) : Takes(t) /\ ValidateCall(t, tok)
    \/ \E t \in Threads : ValidateLock(t)
    \/ \E t \in Threads : ValidateBody(t)
    \/ \E t \in Threads : \E state \in TokenInputs(issued) : \E cookie \in CookieInputs(state),
                             code \in Codes : Takes(t) /\ CallbackCall(t, state, cookie, code)
    \/ \E t \in Threads : CallbackExchange(t)

Spec == Init /\ [][Next]_vars

(***************************************************************************)
(* The legacy server module (app/server.py) beside the auth router         *)
(* (SpecLegacy): its /auth/callback route takes `code` alone.              *)
(***************************************************************************)
\* GET /auth/callback?code=..&state=.. served by app.server: the route declares
\* no state parameter and reads no cookie;
\* `success = calendar_service.handle_callback(code)`, then 200, or 400 if falsy
auth_callback(t, state, code) ==
    /\ Free(th[t])
    /\ events < MaxEvents
    /\ events' = events + 1
    /\ \E outcome \in ExchangeOutcomes(code) :
         LET r == handle_callback(outcome, users, defaultCreds, defaultService)
         IN  /\ users' = r.users
             /\ defaultCreds' = r.default_creds
             /\ defaultService' = r.default_service
             /\ th' = [th EXCEPT ![t] =
                         [Idle EXCEPT !.op = "auth_callback", !.token = state,
                                      !.code = code, !.pc = "done", !.exch = TRUE,
                                      !.email = r.ret,
                                      !.resp = IF r.ret \notin {None, EmptyStr}
                                               THEN 200 ELSE 400]]
    /\ exchanges' = Bump(exchanges, state)
    /\ UNCHANGED <<clock, pending, unpruned, issued, statesLock, found, trues, svcVars, toolVars>>

NextLegacy ==
    \/ Next
    \/ \E t \in Threads : \E state \in TokenInputs(issued), code \in Codes :
          Takes(t) /\ auth_callback(t, state, code)

SpecLegacy == Init /\ [][NextLegacy]_vars

(***************************************************************************)
(* The CSRF state store alone (SpecStore): threads calling                 *)
(* _issue_state_token and validate_and_consume_state while the clock runs. *)
(* The store starts empty, or holds one token an earlier request was       *)
(* issued at time 0.                                                       *)
(***************************************************************************)
StoresOfTokens == {<<>>, RegisterToken(<<>>, 1, 0)}

InitStore ==
    /\ clock = 0
    /\ pending \in StoresOfTokens
    /\ unpruned = pending
    /\ issued = Cardinality(DOMAIN pending)
    /\ statesLock = NoThread
    /\ th = [t \in Threads |-> Idle]
    /\ users = <<>>
    /\ defaultCreds = NoCreds
    /\ defaultService = 0
    /\ found = {}
    /\ trues = [k \in 0..Forged |-> 0]
    /\ exchanges = [k \in 0..Forged |-> 0]
    /\ events = 0
    /\ svcLock = NoThread
    /\ sv = [t \in Threads |-> SvIdle]
    /\ rq = [t \in Threads |-> ToolIdle]
    /\ bookings = 0

NextStore ==
    \/ Tick
    \/ \E t \in Threads : Takes(t) /\ ConnectCall(t)
    \/ \E t \in Threads : IssueLock(t)
    \/ \E t \in Threads : IssueBody(t)
    \/ \E t \in Threads : \E tok \in TokenInputs(issued) : Takes(t) /\ ValidateCall(t, tok)
    \/ \E t \in Threads : ValidateLock(t)
    \/ \E t \in Threads : ValidateBody(t)

SpecStore == InitStore /\ [][NextStore]_vars

(***************************************************************************)
(* Threads calling the GoogleCalendarService methods (SpecSvc).            *)
(***************************************************************************)
\* identity strings handed to get_client_for_user directly
IdentityInputs ==
    {Alice,
     EmptyStr,
     <<"b", "o", "b", "@", "e", "x">>,              \* no "." after the "@"
     <<"@", "e", "x", ".", "c", "o">>,              \* empty local part
     <<"b", " ", "b", "@", "e", "x", ".", "c", "o">>,   \* a space
     Bob \o <<"\n">>}                               \* a trailing newline

\* identities handed to resolve_client, which forwards the non-empty ones
\* ("default" is a string without "@")
ResolveInputs == Tenants \cup {None, EmptyStr, DEFAULT_EMAIL}

SvFree(r) == r.pc \in {"idle", "done"}

\* get_client_for_user returns `client` (to its caller, or through resolve_client)
AfterTenantClient(r, client) == [r EXCEPT !.ret = client, !.pc = "done"]

\* entry of get_client_for_user: the format check before the store is touched
TenantEntry(r) ==
    IF ~EMAIL_RE_match(r.email)
    THEN AfterTenantClient([r EXCEPT !.via = "tenant"], NoClient)
    ELSE [r EXCEPT !.via = "tenant", !.pc = "g_read"]

\* entry of get_default_client: `if self.is_authenticated:`
DefaultEntry(r) == [r EXCEPT !.via = "default", !.pc = "a_lock"]

\* a call of one of the service's methods
SvcCall(t, op, email) ==
    /\ SvFree(sv[t])
    /\ events < MaxCalls
    /\ events' = events + 1
    /\ LET r == [SvIdle EXCEPT !.op = op, !.email = email]
       IN  sv' = [sv EXCEPT ![t] =
                    CASE op = "resolve_client" ->
                           IF ResolveRoute(email) = "tenant"
                           THEN TenantEntry(r) ELSE DefaultEntry(r)
                      [] op = "get_client_for_user" -> TenantEntry(r)
                      [] op = "get_default_client" -> DefaultEntry(r)
                      [] op = "is_authenticated" -> [r EXCEPT !.pc = "a_lock"]]
    /\ UNCHANGED <<authState, users, slotVars, svcLock, toolVars>>

\* `token_json = get_user_credentials(email)`; `if not token_json: return None`
TenantRead(t) ==
    /\ sv[t].pc = "g_read"
    /\ LET r == [sv[t] EXCEPT !.dbops = @ + 1]
       IN  sv' = [sv EXCEPT ![t] =
                    IF r.email \in DOMAIN users
                    THEN [r EXCEPT !.blob = users[r.email], !.creds = users[r.email],
                                   !.pc = "g_load"]
                    ELSE AfterTenantClient(r, NoClient)]
    /\ UNCHANGED <<authVars, users, slotVars, svcLock, toolVars>>

\* Credentials.from_authorized_user_info (raises on a corrupt blob), then
\* `if creds.expired and creds.refresh_token: creds.refresh(Request())` (may raise);
\* without a refresh: `if creds.valid: return CalendarClient(creds, email)`
TenantLoad(t) ==
    /\ sv[t].pc = "g_load"
    /\ LET r == sv[t]
       IN  IF r.creds.kind = "corrupt"
           THEN sv' = [sv EXCEPT ![t] = AfterTenantClient(r, NoClient)]
           ELSE IF NeedsRefresh(r.creds)
           THEN \E refreshOk \in BOOLEAN :
                  sv' = [sv EXCEPT ![t] =
                           IF refreshOk
                           THEN [r EXCEPT !.creds = RefreshedBy(r.creds, t),
                                          !.refreshes = @ + 1, !.pc = "g_update"]
                           ELSE AfterTenantClient([r EXCEPT !.refreshes = @ + 1],
                                                  NoClient)]
           ELSE sv' = [sv EXCEPT ![t] =
                         AfterTenantClient(r, IF CredsValid(r.creds)
                                              THEN CalendarClient(r.creds, r.email)
                                              ELSE NoClient)]
    /\ UNCHANGED <<authVars, users, slotVars, svcLock, toolVars>>

\* `update_user_token(email, creds.to_json())` (may raise), then
\* `if creds.valid: return CalendarClient(creds, email)`
TenantUpdate(t) ==
    /\ sv[t].pc = "g_update"
    /\ LET r == [sv[t] EXCEPT !.dbops = @ + 1]
       IN  \E writeOk \in BOOLEAN :
             IF writeOk
             THEN /\ users' = update_user_token(users, r.email, r.creds)
                  /\ sv' = [sv EXCEPT ![t] =
                              AfterTenantClient([r EXCEPT !.writes = @ + 1],
                                                IF CredsValid(r.creds)
                                                THEN CalendarClient(r.creds, r.email)
                                                ELSE NoClient)]
             ELSE /\ users' = users
                  /\ sv' = [sv EXCEPT ![t] = AfterTenantClient(r, NoClient)]
    /\ UNCHANGED <<authVars, slotVars, svcLock, toolVars>>

\* `with self._lock:` in is_authenticated
AuthLock(t) ==
    /\ sv[t].pc = "a_lock"
    /\ CanAcquire(svcLock, t)
    /\ svcLock' = t
    /\ sv' = [sv EXCEPT ![t].pc = "a_body"]
    /\ UNCHANGED <<authVars, users, slotVars, toolVars>>

\* (variant: the refreshed default credential is also written to the users table,
\* inside the critical section)
AuthBody_persists(t) ==
    /\ sv[t].pc = "a_body"
    /\ \E refreshOk \in (IF NeedsRefresh(defaultCreds) THEN BOOLEAN ELSE {TRUE}) :
         LET a == is_authenticated_body(defaultCreds, defaultService, refreshOk)
             r == [sv[t] EXCEPT !.checked = TRUE, !.auth = a.ret,
                                !.refreshes = IF NeedsRefresh(defaultCreds)
                                              THEN @ + 1 ELSE @,
                                !.dbops = IF NeedsRefresh(defaultCreds)
                                          THEN @ + 1 ELSE @]
         IN  /\ defaultCreds' = a.creds
             /\ defaultService' = a.service
             /\ sv' = [sv EXCEPT ![t] =
                         IF r.op = "is_authenticated" \/ ~a.ret
                         THEN [r EXCEPT !.pc = "done"]
                         ELSE [r EXCEPT !.pc = "d_lock"]]
    /\ svcLock' = IF svcLock = t THEN NoThread ELSE svcLock
    /\ UNCHANGED <<authVars, users, toolVars>>

\* (variant: get_default_client evaluates is_authenticated inside its own
\* `with self._lock:`, so the lock is still held when it is taken again)
AuthBody_nested(t) ==
    /\ sv[t].pc = "a_body"
    /\ \E refreshOk \in (IF NeedsRefresh(defaultCreds) THEN BOOLEAN ELSE {TRUE}) :
         LET a == is_authenticated_body(defaultCreds, defaultService, refreshOk)
             r == [sv[t] EXCEPT !.checked = TRUE, !.auth = a.ret,
                                !.refreshes = IF NeedsRefresh(defaultCreds)
                                              THEN @ + 1 ELSE @]
         IN  /\ defaultCreds' = a.creds
             /\ defaultService' = a.service
             /\ sv' = [sv EXCEPT ![t] =
                         IF r.op = "is_authenticated" \/ ~a.ret
                         THEN [r EXCEPT !.pc = "done"]
                         ELSE [r EXCEPT !.pc = "d_lock"]]
             /\ svcLock' = IF r.op = "is_authenticated" \/ ~a.ret
                           THEN NoThread ELSE svcLock
    /\ UNCHANGED <<authVars, users, toolVars>>

\* the body of is_authenticated; back in get_default_client, `if self.is_authenticated:`
AuthBody(t) ==
    /\ sv[t].pc = "a_body"
    /\ \E refreshOk \in (IF NeedsRefresh(defaultCreds) THEN BOOLEAN ELSE {TRUE}) :
         LET a == is_authenticated_body(defaultCreds, defaultService, refreshOk)
             r == [sv[t] EXCEPT !.checked = TRUE, !.auth = a.ret,
                                !.refreshes = IF NeedsRefresh(defaultCreds)
                                              THEN @ + 1 ELSE @]
         IN  /\ defaultCreds' = a.creds
             /\ defaultService' = a.service
             /\ sv' = [sv EXCEPT ![t] =
                         IF r.op = "is_authenticated" \/ ~a.ret
                         THEN [r EXCEPT !.pc = "done"]
                         ELSE [r EXCEPT !.pc = "d_lock"]]
    /\ svcLock' = IF svcLock = t THEN NoThread ELSE svcLock
    /\ UNCHANGED <<authVars, users, toolVars>>

\* `with self._lock:` in get_default_client
DefaultLock(t) ==
    /\ sv[t].pc = "d_lock"
    /\ CanAcquire(svcLock, t)
    /\ svcLock' = t
    /\ sv' = [sv EXCEPT ![t].pc = "d_body"]
    /\ UNCHANGED <<authVars, users, slotVars, toolVars>>

\* `return CalendarClient(self._default_creds, email="default")`
DefaultBody(t) ==
    /\ sv[t].pc = "d_body"
    /\ sv' = [sv EXCEPT ![t].ret = CalendarClient(defaultCreds, DEFAULT_EMAIL),
                        ![t].pc = "done"]
    /\ svcLock' = IF svcLock = t THEN NoThread ELSE svcLock
    /\ UNCHANGED <<authVars, users, slotVars, toolVars>>

\* time passes the expiry of the default credential's access token
ExpireDefault ==
    /\ events < MaxCalls
    /\ events' = events + 1
    /\ defaultCreds.kind = "creds" /\ ~defaultCreds.expired
    /\ defaultCreds' = [defaultCreds EXCEPT !.expired = TRUE]
    /\ UNCHANGED <<authState, users, defaultService, svcVars, toolVars>>

(***************************************************************************)
(* The service at startup: the users table holds what earlier runs left    *)
(* (for the first tenant a row with a fresh, an expired or a corrupt blob,  *)
(* or no row; for the second a row with a fresh blob, or no row); the       *)
(* default slot is empty or holds a valid credential.                      *)
(***************************************************************************)
StoredBlobs == {Creds(1, FALSE, TRUE), Creds(1, TRUE, TRUE), Creds(1, TRUE, FALSE), CorruptBlob}
StoresAtStartup ==
    {s \in UNION {[D -> StoredBlobs] : D \in SUBSET Tenants} :
        Bob \in DOMAIN s => s[Bob] = Creds(1, FALSE, TRUE)}
SvcSlotsAtStartup == DefaultSlotsAtStartup \cup {<<Creds(1, FALSE, FALSE), 1>>}

InitSvc ==
    /\ clock = 0
    /\ pending = <<>>
    /\ unpruned = <<>>
    /\ issued = 0
    /\ statesLock = NoThread
    /\ th = [t \in Threads |-> Idle]
    /\ found = {}
    /\ trues = [k \in 0..Forged |-> 0]
    /\ exchanges = [k \in 0..Forged |-> 0]
    /\ events = 0
    /\ users \in StoresAtStartup
    /\ \E s \in SvcSlotsAtStartup : defaultCreds = s[1] /\ defaultService = s[2]
    /\ svcLock = NoThread
    /\ sv = [t \in Threads |-> SvIdle]
    /\ rq = [t \in Threads |-> ToolIdle]
    /\ bookings = 0

NextSvc ==
    \/ \E t \in Threads : \E email \in ResolveInputs :
          Takes(t) /\ SvcCall(t, "resolve_client", email)
    \/ \E t \in Threads : \E email \in IdentityInputs :
          Takes(t) /\ SvcCall(t, "get_client_for_user", email)
    \/ \E t \in Threads : \E op \in {"get_default_client", "is_authenticated"} :
          Takes(t) /\ SvcCall(t, op, None)
    \/ \E t \in Threads : TenantRead(t)
    \/ \E t \in Threads : TenantLoad(t)
    \/ \E t \in Threads : TenantUpdate(t)
    \/ \E t \in Threads : AuthLock(t)
    \/ \E t \in Threads : AuthBody(t)
    \/ \E t \in Threads : DefaultLock(t)
    \/ \E t \in Threads : DefaultBody(t)
    \/ ExpireDefault

SpecSvc == InitSvc /\ [][NextSvc]_vars

(***************************************************************************)
(* Construction of the service, then its use (SpecBoot).                   *)
(* `calendar_service = GoogleCalendarService()` runs at import, before any *)
(* request is served; then threads call resolve_client, get_default_client, *)
(* is_authenticated, get_auth_url and validate_and_consume_state.           *)
(***************************************************************************)
\* GOOGLE_TOKEN_JSON: unset; a credential that is fresh, without a refresh token,
\* expired with or without a refresh token; or a blob that does not deserialize
EnvInputs == {NoEnv, Creds(1, FALSE, FALSE)} \cup StoredBlobs

\* identities handed to resolve_client: a connected tenant, or none
BootResolveInputs == {Alice, None}

\* GoogleCalendarService.__init__: the lock, the empty slot, then
\* _load_default_credentials on the environment's credential
Construct(t) ==
    /\ sv[t].pc = "c_load"
    /\ \E refreshOk \in RefreshChoices(sv[t].blob) :
         LET slot == load_default_credentials(sv[t].blob, refreshOk)
         IN  /\ defaultCreds' = slot.creds
             /\ defaultService' = slot.service
             /\ sv' = [sv EXCEPT ![t].pc = "done", ![t].raised = slot.raised,
                                 ![t].refreshes = IF NeedsRefresh(sv[t].blob)
                                                  THEN 1 ELSE 0]
    /\ UNCHANGED <<authVars, users, svcLock, toolVars>>

\* the singleton exists: no constructor is running
Constructed == \A t \in Threads : sv[t].pc # "c_load"

\* thread t can take a call: the service exists and t is inside no other call
Ready(t) == Constructed /\ Free(th[t]) /\ SvFree(sv[t]) /\ Takes(t)

\* the accounts that complete an OAuth flow while the service runs
BootCallbackEmails == {Bob, EmptyStr}

\* `calendar_service.handle_callback(code)` for an account among `emails`
HandleCallbackFor(t, code, emails) ==
    /\ SvFree(sv[t])
    /\ events < MaxCalls
    /\ events' = events + 1
    /\ \E outcome \in {o \in ExchangeOutcomes(code) : o.email \in emails} :
         LET r == handle_callback(outcome, users, defaultCreds, defaultService)
         IN  /\ users' = r.users
             /\ defaultCreds' = r.default_creds
             /\ defaultService' = r.default_service
             /\ sv' = [sv EXCEPT ![t] = [SvIdle EXCEPT !.op = "handle_callback",
                                                      !.email = r.ret, !.pc = "done"]]
    /\ UNCHANGED <<authState, svcLock, toolVars>>

\* `calendar_service.handle_callback(code)` on the constructed service
HandleCallback(t, code) == HandleCallbackFor(t, code, BootCallbackEmails)

BootStoresAtStartup == {s \in StoresAtStartup : DOMAIN s = {Alice} /\ NeedsRefresh(s[Alice])}

InitBoot ==
    /\ clock = 0
    /\ pending = <<>>
    /\ unpruned = <<>>
    /\ issued = 0
    /\ statesLock = NoThread
    /\ th = [t \in Threads |-> Idle]
    /\ found = {}
    /\ trues = [k \in 0..Forged |-> 0]
    /\ exchanges = [k \in 0..Forged |-> 0]
    /\ events = 0
    /\ users \in BootStoresAtStartup
    /\ defaultCreds = EmptySlot.creds
    /\ defaultService = EmptySlot.service
    /\ svcLock = NoThread
    /\ \E token_json \in EnvInputs :
          sv = [t \in Threads |->
                  IF t = 1
                  THEN [SvIdle EXCEPT !.op = "__init__", !.blob = token_json,
                                      !.pc = "c_load"]
                  ELSE SvIdle]
    /\ rq = [t \in Threads |-> ToolIdle]
    /\ bookings = 0

NextBoot ==
    \/ \E t \in Threads : Construct(t)
    \/ \E t \in Threads : \E email \in BootResolveInputs :
          Ready(t) /\ SvcCall(t, "resolve_client", email)
    \/ \E t \in Threads : \E op \in {"get_default_client", "is_authenticated"} :
          Ready(t) /\ SvcCall(t, op, None)
    \/ \E t \in Threads : TenantRead(t)
    \/ \E t \in Threads : TenantLoad(t)
    \/ \E t \in Threads : TenantUpdate(t)
    \/ \E t \in Threads : AuthLock(t)
    \/ \E t \in Threads : AuthBody(t)
    \/ \E t \in Threads : DefaultLock(t)
    \/ \E t \in Threads : DefaultBody(t)
    \/ Constructed /\ ExpireDefault
    \/ \E t \in Threads : \E code \in Codes : Ready(t) /\ HandleCallback(t, code)
    \/ \E t \in Threads : Ready(t) /\ ConnectCall(t)
    \/ \E t \in Threads : IssueLock(t)
    \/ \E t \in Threads : IssueBody(t)
    \/ \E t \in Threads : \E tok \in 1..issued : Ready(t) /\ ValidateCall(t, tok)
    \/ \E t \in Threads : ValidateLock(t)
    \/ \E t \in Threads : ValidateBody(t)

SpecBoot == InitBoot /\ [][NextBoot]_vars

(***************************************************************************)
(* The two locks (SpecLocks): the callers of `with self._lock:` and of     *)
(* `with _states_lock:` on a constructed service with an empty users table. *)
(***************************************************************************)
InitLocks ==
    /\ InitSvc
    /\ users = <<>>

NextLocks ==
    \/ \E t \in Threads : \E op \in {"get_default_client", "is_authenticated"} :
          Ready(t) /\ SvcCall(t, op, None)
    \/ \E t \in Threads : AuthLock(t)
    \/ \E t \in Threads : AuthBody(t)
    \/ \E t \in Threads : DefaultLock(t)
    \/ \E t \in Threads : DefaultBody(t)
    \/ ExpireDefault
    \/ \E t \in Threads : Ready(t) /\ ConnectCall(t)
    \/ \E t \in Threads : IssueLock(t)
    \/ \E t \in Threads : IssueBody(t)
    \/ \E t \in Threads : \E tok \in TokenInputs(issued) : Ready(t) /\ ValidateCall(t, tok)
    \/ \E t \in Threads : ValidateLock(t)
    \/ \E t \in Threads : ValidateBody(t)

SpecLocks == InitLocks /\ [][NextLocks]_vars

(***************************************************************************)
(* A tenant's row deleted while its credential is in use (SpecTenant).     *)
(* delete_user runs in its own connection, at any point between the        *)
(* statements of a get_client_for_user call for the same email.            *)
(***************************************************************************)
\* the accounts whose row is read, refreshed, deleted and exchanged anew
TenantEmails == {Alice}

\* DELETE FROM users WHERE email = ?
delete_user(store, email) == [e \in DOMAIN store \ {email} |-> store[e]]

\* `delete_user(email)`; the thread's record keeps the row that was removed
DeleteUser(t, email) ==
    /\ SvFree(sv[t])
    /\ users' = delete_user(users, email)
    /\ sv' = [sv EXCEPT ![t] =
                [SvIdle EXCEPT !.op = "delete_user", !.email = email, !.pc = "done",
                               !.blob = IF email \in DOMAIN users
                                        THEN users[email] ELSE NoCreds,
                               !.dbops = 1]]
    /\ UNCHANGED <<authVars, slotVars, svcLock, toolVars>>

InitTenant ==
    /\ InitSvc
    /\ TenantEmails \subseteq DOMAIN users

NextTenant ==
    \/ \E t \in Threads : \E email \in TenantEmails :
          Takes(t) /\ SvcCall(t, "get_client_for_user", email)
    \/ \E t \in Threads : TenantRead(t)
    \/ \E t \in Threads : TenantLoad(t)
    \/ \E t \in Threads : TenantUpdate(t)
    \/ \E t \in Threads : \E email \in TenantEmails : Takes(t) /\ DeleteUser(t, email)
    \/ \E t \in Threads : \E code \in Codes :
          Takes(t) /\ HandleCallbackFor(t, code, TenantEmails)

SpecTenant == InitTenant /\ [][NextTenant]_vars

(***************************************************************************)
(* POST /tools/api/v1/schedule-event (SpecTools).                          *)
(***************************************************************************)
ToolCalls ==
    {ToolCallOf(ToolArgs("ann", "tomorrow", e)) : e \in {None} \cup Tenants}
      \cup {ToolCallOf(ToolArgs("ann", "someday-ish", None)),
            ToolCallOf(ToolArgs("ann", FarFuture, None)),
            ToolCallOf(ToolArgs("", "tomorrow", None))}
ToolBodies ==
    {Body(<<tc>>, NoToolCall, NoToolCall) : tc \in ToolCalls}
      \cup {Body(<<>>, ToolCallOf(ToolArgs("ann", "tomorrow", None)), NoToolCall),
            Body(<<>>, NoToolCall, ToolCallOf(ToolArgs("ann", "tomorrow", None))),
            Body(<<>>, NoToolCall, NoToolCall)}

\* lines 33-45: extract the tool call, validate its arguments
ScheduleEventCall(t, body) ==
    /\ rq[t].pc \in {"idle", "done"}
    /\ events < MaxCalls
    /\ events' = events + 1
    /\ LET tc == extract_tool_call(body)
           r == Enter([ToolIdle EXCEPT !.raw = tc.arguments,
                                       !.route = "schedule_event"], "validate")
       IN  rq' = [rq EXCEPT ![t] =
                    IF ~tc.present THEN Respond(ToolIdle, 400, "invalid_tool_call")
                    ELSE IF ScheduleEventArgs_raises(tc.arguments)
                    THEN Respond(r, 200, "retry_details")
                    ELSE [r EXCEPT !.args = ScheduleEventArgs(tc.arguments),
                                   !.pc = "s_auth"]]
    /\ UNCHANGED <<authState, users, slotVars, svcVars, bookings>>

\* lines 47-58: `if not calendar_service.is_authenticated`, then parse_datetime
\* inside `try: ... except ValueError:`
ScheduleEventAuth(t) ==
    /\ rq[t].pc = "s_auth"
    /\ CanAcquire(svcLock, t)
    /\ \E refreshOk \in RefreshChoices(defaultCreds) :
         LET a == is_authenticated_body(defaultCreds, defaultService, refreshOk)
             r == Remote(Enter(rq[t], "auth"), "is_authenticated",
                        RefreshCalls(defaultCreds))
         IN  /\ defaultCreds' = a.creds
             /\ defaultService' = a.service
             /\ rq' = [rq EXCEPT ![t] =
                         IF ~a.ret THEN Respond(r, 200, "not_connected")
                         ELSE IF parse_datetime_raises(r.args)
                         THEN Respond(Enter(r, "parse"), 200, "retry_datetime")
                         ELSE IF parse_datetime_overflows(r.args)
                         THEN Unhandled(Enter(r, "parse"), "OverflowError")
                         ELSE AfterParseDatetime(Enter(r, "parse"))]
    /\ UNCHANGED <<authVars, users, svcVars, bookings>>

\* lines 60-68: calendar_service.check_conflicts, which raises when there is no
\* default client or when the provider's list call fails
ScheduleEventConflicts(t) ==
    /\ rq[t].pc = "s_conflicts"
    /\ CanAcquire(svcLock, t)
    /\ \E refreshOk \in RefreshChoices(defaultCreds) :
         LET g == get_default_client(defaultCreds, defaultService, refreshOk)
             r == Remote(Enter(rq[t], "conflicts"), "check_conflicts",
                        RefreshCalls(defaultCreds) \cup {"list"})
         IN  /\ defaultCreds' = g.creds
             /\ defaultService' = g.service
             /\ IF legacy_call_raises(g.client)
                THEN rq' = [rq EXCEPT ![t] =
                              AfterConflicts([r EXCEPT !.conflicts = "error",
                                                       !.raised = NotAuthenticated],
                                             "error")]
                ELSE \E listed \in {"free", "busy", "error"} :
                       rq' = [rq EXCEPT ![t] =
                                AfterConflicts([r EXCEPT !.lists = @ + 1,
                                                         !.client = g.client.email,
                                                         !.conflicts = listed,
                                                         !.raised = IF listed = "error"
                                                                    THEN "HttpError" ELSE @],
                                               listed)]
    /\ UNCHANGED <<authVars, users, svcVars, bookings>>

\* lines 70-107: one pass of `for attempt in range(2)`: calendar_service.create_event
\* (which raises when there is no default client or when the provider's insert
\* fails), then log_booking (a failure there is only logged) and the confirmation
ScheduleEventCreate(t) ==
    /\ rq[t].pc = "s_create"
    /\ CanAcquire(svcLock, t)
    /\ \E refreshOk \in RefreshChoices(defaultCreds) :
         LET g == get_default_client(defaultCreds, defaultService, refreshOk)
             c == [Remote(Enter(rq[t], "create"), "create_event",
                          RefreshCalls(defaultCreds) \cup {"insert"})
                     EXCEPT !.creates = @ + 1]
         IN  /\ defaultCreds' = g.creds
             /\ defaultService' = g.service
             /\ \E inserted \in (IF legacy_call_raises(g.client) THEN {FALSE} ELSE BOOLEAN) :
                  LET r == IF legacy_call_raises(g.client)
                           THEN [c EXCEPT !.raised = NotAuthenticated]
                           ELSE [c EXCEPT !.inserts = @ + 1, !.client = g.client.email,
                                          !.raised = IF inserted THEN @ ELSE "HttpError"]
                  IN  IF inserted
                      THEN \E logged \in BOOLEAN :
                             /\ rq' = [rq EXCEPT ![t] =
                                         Respond([Enter(r, "log") EXCEPT
                                                    !.created = @ + 1, !.logged = logged],
                                                 200, "done")]
                             /\ bookings' = log_booking(bookings, logged)
                      ELSE /\ rq' = [rq EXCEPT ![t] =
                                       IF RetryAllowed(r.attempt)
                                       THEN [r EXCEPT !.attempt = @ + 1]
                                       ELSE Respond(r, 200, "hiccup")]
                           /\ bookings' = bookings
    /\ UNCHANGED <<authVars, users, svcVars>>

\* the tool route never reads the users table: one connected tenant, or none
ToolStoresAtStartup ==
    {s \in StoresAtStartup : \A e \in DOMAIN s : e = Alice /\ s[e] = Creds(1, FALSE, TRUE)}

InitTools ==
    /\ clock = 0
    /\ pending = <<>>
    /\ unpruned = <<>>
    /\ issued = 0
    /\ statesLock = NoThread
    /\ th = [t \in Threads |-> Idle]
    /\ found = {}
    /\ trues = [k \in 0..Forged |-> 0]
    /\ exchanges = [k \in 0..Forged |-> 0]
    /\ events = 0
    /\ users \in ToolStoresAtStartup
    /\ \E s \in SvcSlotsAtStartup : defaultCreds = s[1] /\ defaultService = s[2]
    /\ svcLock = NoThread
    /\ sv = [t \in Threads |-> SvIdle]
    /\ rq = [t \in Threads |-> ToolIdle]
    /\ bookings = 0

NextTools ==
    \/ \E t \in Threads : \E body \in ToolBodies : Takes(t) /\ ScheduleEventCall(t, body)
    \/ \E t \in Threads : ScheduleEventAuth(t)
    \/ \E t \in Threads : ScheduleEventConflicts(t)
    \/ \E t \in Threads : ScheduleEventCreate(t)
    \/ ExpireDefault

SpecTools == InitTools /\ [][NextTools]_vars

(***************************************************************************)
(* The other routes that query the calendar (SpecRoutes):                  *)
(* POST /api/direct/schedule (app/main.py) and                             *)
(* POST /tools/api/v1/check-availability, beside schedule-event.           *)
(***************************************************************************)
\* DirectScheduleRequest bodies that pass the framework's validation
DirectRequests ==
    {ToolArgs("ann", "tomorrow", None), ToolArgs("ann", "someday-ish", None)}

\* `async def direct_schedule(req: DirectScheduleRequest)` is entered
DirectScheduleCall(t, req) ==
    /\ rq[t].pc \in {"idle", "done"}
    /\ events < MaxCalls
    /\ events' = events + 1
    /\ rq' = [rq EXCEPT ![t] =
                [Enter([ToolIdle EXCEPT !.raw = req, !.route = "direct_schedule"],
                       "validate")
                   EXCEPT !.args = ScheduleEventArgs(req), !.pc = "d_auth"]]
    /\ UNCHANGED <<authState, users, slotVars, svcVars, bookings>>

\* main.py 86-93: `if not calendar_service.is_authenticated` (401), then
\* parse_datetime inside `try: ... except ValueError` (400)
DirectScheduleAuth(t) ==
    /\ rq[t].pc = "d_auth"
    /\ CanAcquire(svcLock, t)
    /\ \E refreshOk \in RefreshChoices(defaultCreds) :
         LET a == is_authenticated_body(defaultCreds, defaultService, refreshOk)
             r == Remote(Enter(rq[t], "auth"), "is_authenticated",
                        RefreshCalls(defaultCreds))
         IN  /\ defaultCreds' = a.creds
             /\ defaultService' = a.service
             /\ rq' = [rq EXCEPT ![t] =
                         IF ~a.ret THEN Respond(r, 401, "not_authenticated")
                         ELSE IF parse_datetime_raises(r.args)
                         THEN Respond(Enter(r, "parse"), 400, "bad_datetime")
                         ELSE IF parse_datetime_overflows(r.args)
                         THEN Unhandled(Enter(r, "parse"), "OverflowError")
                         ELSE [Enter(r, "parse") EXCEPT !.pc = "d_conflicts"]]
    /\ UNCHANGED <<authVars, users, svcVars, bookings>>

\* (variant: the conflict list is reported and the event is created all the same)
AfterDirectConflicts_proceeds(r, listed) ==
    IF listed = "error" THEN Unhandled(r, r.raised)
    ELSE [r EXCEPT !.pc = "d_create"]

\* main.py 95-100: the conflict query is under no try block, so an exception of
\* it leaves the handler; `if conflicts:` answers {"status": "conflict"}
AfterDirectConflicts(r, listed) ==
    IF listed = "error" THEN Unhandled(r, r.raised)
    ELSE IF listed = "busy" THEN Respond(r, 200, "conflict")
    ELSE [r EXCEPT !.pc = "d_create"]

\* main.py 95: `await asyncio.to_thread(calendar_service.check_conflicts, ...)`
DirectScheduleConflicts(t) ==
    /\ rq[t].pc = "d_conflicts"
    /\ CanAcquire(svcLock, t)
    /\ \E refreshOk \in RefreshChoices(defaultCreds) :
         LET g == get_default_client(defaultCreds, defaultService, refreshOk)
             r == Remote(Enter(rq[t], "conflicts"), "check_conflicts",
                        RefreshCalls(defaultCreds) \cup {"list"})
         IN  /\ defaultCreds' = g.creds
             /\ defaultService' = g.service
             /\ IF legacy_call_raises(g.client)
                THEN rq' = [rq EXCEPT ![t] =
                              AfterDirectConflicts([r EXCEPT !.conflicts = "error",
                                                             !.raised = NotAuthenticated],
                                                   "error")]
                ELSE \E listed \in {"free", "busy", "error"} :
                       rq' = [rq EXCEPT ![t] =
                                AfterDirectConflicts(
                                    [r EXCEPT !.lists = @ + 1,
                                              !.client = g.client.email,
                                              !.conflicts = listed,
                                              !.raised = IF listed = "error"
                                                         THEN "HttpError" ELSE @],
                                    listed)]
    /\ UNCHANGED <<authVars, users, svcVars, bookings>>

\* main.py 102-120: create_event once, then log_booking, neither under a try
\* block, then {"status": "created"}
DirectScheduleCreate(t) ==
    /\ rq[t].pc = "d_create"
    /\ CanAcquire(svcLock, t)
    /\ \E refreshOk \in RefreshChoices(defaultCreds) :
         LET g == get_default_client(defaultCreds, defaultService, refreshOk)
             c == [Remote(Enter(rq[t], "create"), "create_event",
                          RefreshCalls(defaultCreds) \cup {"insert"})
                     EXCEPT !.creates = @ + 1]
         IN  /\ defaultCreds' = g.creds
             /\ defaultService' = g.service
             /\ IF legacy_call_raises(g.client)
                THEN /\ rq' = [rq EXCEPT ![t] = Unhandled([c EXCEPT !.raised = NotAuthenticated],
                                                          NotAuthenticated)]
                     /\ bookings' = bookings
                ELSE \E inserted \in BOOLEAN, logged \in BOOLEAN :
                       LET r == [c EXCEPT !.inserts = @ + 1, !.client = g.client.email]
                       IN  IF ~inserted
                           THEN /\ rq' = [rq EXCEPT ![t] =
                                            Unhandled([r EXCEPT !.raised = "HttpError"],
                                                      "HttpError")]
                                /\ bookings' = bookings
                           ELSE /\ rq' = [rq EXCEPT ![t] =
                                            LET l == [Enter(r, "log") EXCEPT
                                                        !.created = @ + 1, !.logged = logged]
                                            IN  IF logged THEN Respond(l, 200, "created")
                                                ELSE Unhandled(l, "OperationalError")]
                                /\ bookings' = log_booking(bookings, logged)
    /\ UNCHANGED <<authVars, users, svcVars>>

\* CheckAvailabilityArgs(**raw_args): `date` and `time` are required
CheckAvailabilityArgs_raises(raw) == raw.date = ""

\* tools.py 110-124: extract the tool call, validate its arguments
CheckAvailabilityCall(t, body) ==
    /\ rq[t].pc \in {"idle", "done"}
    /\ events < MaxCalls
    /\ events' = events + 1
    /\ LET tc == extract_tool_call(body)
           r == Enter([ToolIdle EXCEPT !.raw = tc.arguments,
                                       !.route = "check_availability"], "validate")
       IN  rq' = [rq EXCEPT ![t] =
                    IF ~tc.present THEN Respond(ToolIdle, 400, "invalid_tool_call")
                    ELSE IF CheckAvailabilityArgs_raises(tc.arguments)
                    THEN Respond(r, 200, "retry_details")
                    ELSE [r EXCEPT !.args = ScheduleEventArgs(tc.arguments),
                                   !.pc = "c_auth"]]
    /\ UNCHANGED <<authState, users, slotVars, svcVars, bookings>>

\* tools.py 126-131 and 142-147: `if not calendar_service.is_authenticated`, then,
\* inside the try block, parse_datetime: ValueError has its own answer, any other
\* exception the "having trouble" answer
CheckAvailabilityAuth(t) ==
    /\ rq[t].pc = "c_auth"
    /\ CanAcquire(svcLock, t)
    /\ \E refreshOk \in RefreshChoices(defaultCreds) :
         LET a == is_authenticated_body(defaultCreds, defaultService, refreshOk)
             r == Remote(Enter(rq[t], "auth"), "is_authenticated",
                        RefreshCalls(defaultCreds))
         IN  /\ defaultCreds' = a.creds
             /\ defaultService' = a.service
             /\ rq' = [rq EXCEPT ![t] =
                         IF ~a.ret THEN Respond(r, 200, "not_connected")
                         ELSE IF parse_datetime_raises(r.args)
                         THEN Respond(Enter(r, "parse"), 200, "retry_datetime")
                         ELSE IF parse_datetime_overflows(r.args)
                         THEN Respond([Enter(r, "parse") EXCEPT !.raised = "OverflowError"],
                                      200, "trouble")
                         ELSE [Enter(r, "parse") EXCEPT !.pc = "c_query"]]
    /\ UNCHANGED <<authVars, users, svcVars, bookings>>

\* (variant: a failed query is taken for an empty list)
AfterAvailabilityQuery_open(r, listed) ==
    IF listed = "busy" THEN Respond(r, 200, "unavailable")
    ELSE Respond(r, 200, "available")

\* tools.py 132-147: `if conflicts:` "isn't available", else "is available";
\* `except Exception`: "having trouble checking the calendar"
AfterAvailabilityQuery(r, listed) ==
    IF listed = "error" THEN Respond(r, 200, "trouble")
    ELSE IF listed = "busy" THEN Respond(r, 200, "unavailable")
    ELSE Respond(r, 200, "available")

\* tools.py 132: `await asyncio.to_thread(calendar_service.check_conflicts, ...)`
CheckAvailabilityQuery(t) ==
    /\ rq[t].pc = "c_query"
    /\ CanAcquire(svcLock, t)
    /\ \E refreshOk \in RefreshChoices(defaultCreds) :
         LET g == get_default_client(defaultCreds, defaultService, refreshOk)
             r == Remote(Enter(rq[t], "conflicts"), "check_conflicts",
                        RefreshCalls(defaultCreds) \cup {"list"})
         IN  /\ defaultCreds' = g.creds
             /\ defaultService' = g.service
             /\ IF legacy_call_raises(g.client)
                THEN rq' = [rq EXCEPT ![t] =
                              AfterAvailabilityQuery([r EXCEPT !.conflicts = "error",
                                                               !.raised = NotAuthenticated],
                                                     "error")]
                ELSE \E listed \in {"free", "busy", "error"} :
                       rq' = [rq EXCEPT ![t] =
                                AfterAvailabilityQuery(
                                    [r EXCEPT !.lists = @ + 1,
                                              !.client = g.client.email,
                                              !.conflicts = listed,
                                              !.raised = IF listed = "error"
                                                         THEN "HttpError" ELSE @],
                                    listed)]
    /\ UNCHANGED <<authVars, users, svcVars, bookings>>

\* tool calls sent to the two tool routes
RouteBodies ==
    {Body(<<ToolCallOf(ToolArgs("ann", d, None))>>, NoToolCall, NoToolCall) :
        d \in {"tomorrow", FarFuture}}

NextRoutes ==
    \/ \E t \in Threads : \E body \in RouteBodies : Takes(t) /\ ScheduleEventCall(t, body)
    \/ \E t \in Threads : ScheduleEventAuth(t)
    \/ \E t \in Threads : ScheduleEventConflicts(t)
    \/ \E t \in Threads : ScheduleEventCreate(t)
    \/ \E t \in Threads : \E req \in DirectRequests : Takes(t) /\ DirectScheduleCall(t, req)
    \/ \E t \in Threads : DirectScheduleAuth(t)
    \/ \E t \in Threads : DirectScheduleConflicts(t)
    \/ \E t \in Threads : DirectScheduleCreate(t)
    \/ \E t \in Threads : \E body \in RouteBodies : Takes(t) /\ CheckAvailabilityCall(t, body)
    \/ \E t \in Threads : CheckAvailabilityAuth(t)
    \/ \E t \in Threads : CheckAvailabilityQuery(t)
    \/ ExpireDefault

SpecRoutes == InitTools /\ [][NextRoutes]_vars

(***************************************************************************)
(* POST /tools/api/v1/available-slots: the slot search (SpecSlots).        *)
(* The search is a function of the requested period and of the events the  *)
(* calendar returned; it runs on the event loop without awaiting.  Times   *)
(* are seconds of the requested day in the service's timezone.             *)
(***************************************************************************)
MaxBusy == 2      \* events returned by the calendar
MaxGrid == 2      \* half hours after the window's start at which events begin or end

HourSeconds == 3600
\* datetime.timedelta(minutes=30), datetime.timedelta(minutes=60)
SlotSeconds == 1800
StepSeconds == 3600

\* AvailableSlotsArgs.preferred_period: ^(morning|afternoon|evening|any)$
Periods == {"morning", "afternoon", "evening", "any"}

\* period_ranges.get(args.preferred_period, (9, 18))
period_ranges(period) ==
    CASE period = "morning" -> <<9, 12>>
      [] period = "afternoon" -> <<12, 17>>
      [] period = "evening" -> <<17, 20>>
      [] OTHER -> <<9, 18>>

\* base_date.replace(hour=start_h, minute=0), base_date.replace(hour=end_h, minute=0)
SearchStart(period) == period_ranges(period)[1] * HourSeconds
SearchEnd(period) == period_ranges(period)[2] * HourSeconds

\* instants at which a returned event begins or ends: a quarter of an hour
\* before the window, a quarter of an hour and thirty seconds into it, whole
\* half hours into it, and a quarter of an hour past its end
BusyPoints(period) ==
    {SearchStart(period) - 900, SearchStart(period) + 930, SearchEnd(period) + 900}
      \cup {SearchStart(period) + SlotSeconds * k : k \in 1..MaxGrid}

\* the events of the calendar's answer: timed ("dateTime" in start), of any
\* length from zero, or all-day ("date" in start)
AllDayEvent == [allday |-> TRUE, start |-> 0, end |-> 0]
TimedEvent(a, b) == [allday |-> FALSE, start |-> a, end |-> b]
CalendarEvents(period) ==
    {AllDayEvent}
      \cup {TimedEvent(a, b) : a, b \in BusyPoints(period)}
\* a timed event does not end before it begins
WellFormed(e) == e.allday \/ e.start <= e.end
EventLists(period) ==
    UNION {[1..n -> {e \in CalendarEvents(period) : WellFormed(e)}] : n \in 0..MaxBusy}

\* current.strftime("%I:%M %p"): <<hour on the 12-hour clock, minute, AM or PM>>
strftime_I_M_p(time) ==
    LET h == (time \div HourSeconds) % 24
        h12 == IF h % 12 = 0 THEN 12 ELSE h % 12
    IN  <<h12, (time % HourSeconds) \div 60, IF h < 12 THEN "AM" ELSE "PM">>

\* the instant a suggested start time names, as the caller hears it
SuggestedStart(text) ==
    ((text[1] % 12) + (IF text[3] = "PM" THEN 12 ELSE 0)) * HourSeconds + text[2] * 60

\* `if current < busy_end and slot_end > busy_start`
Overlaps(current, b) == current < b.end /\ current + SlotSeconds > b.start

\* the first busy time, in list order, that the slot at `current` overlaps (0: none)
FirstOverlap(current, busy) ==
    IF \E i \in DOMAIN busy : Overlaps(current, busy[i])
    THEN CHOOSE i \in DOMAIN busy :
            /\ Overlaps(current, busy[i])
            /\ \A j \in 1..(i - 1) : ~Overlaps(current, busy[j])
    ELSE 0

\* `while current + timedelta(minutes=30) <= search_end and len(available) < 3`
LoopCondition(q) ==
    q.current + SlotSeconds <= q.search_end /\ Len(q.available) < 3

\* (variant: the cursor jumps to the start of the busy time it met)
SearchIteration_tostart(q) ==
    LET i == FirstOverlap(q.current, q.busy)
        slot_end == q.current + SlotSeconds
        r == [q EXCEPT !.prev = q.current, !.iters = @ + 1]
    IN  IF i = 0
        THEN [r EXCEPT !.available = Append(@, strftime_I_M_p(q.current)),
                       !.current = q.current + StepSeconds]
        ELSE [r EXCEPT !.current = IF q.busy[i].start = slot_end
                                   THEN q.busy[i].start + SlotSeconds
                                   ELSE q.busy[i].start]

\* one iteration of the while loop (lines 201-213)
SearchIteration(q) ==
    LET i == FirstOverlap(q.current, q.busy)
        slot_end == q.current + SlotSeconds
        r == [q EXCEPT !.prev = q.current, !.iters = @ + 1]
    IN  IF i = 0
        THEN [r EXCEPT !.available = Append(@, strftime_I_M_p(q.current)),
                       !.current = q.current + StepSeconds]
        ELSE [r EXCEPT !.current = IF q.busy[i].end = slot_end
                                   THEN q.busy[i].end + SlotSeconds
                                   ELSE q.busy[i].end]

\* `# Build busy time ranges`: the first all-day event ends the request; else
\* the timed events in order, and `current = search_start`
AvailableSlotsBuild(t) ==
    /\ rq[t].pc = "v_build"
    /\ LET q == rq[t].search
       IN  rq' = [rq EXCEPT ![t] =
                    IF \E i \in DOMAIN q.events : q.events[i].allday
                    THEN Respond(rq[t], 200, "all_day")
                    ELSE [Enter(rq[t], "search") EXCEPT
                             !.pc = "v_loop",
                             !.search = [q EXCEPT !.busy = q.events,
                                                  !.current = q.search_start,
                                                  !.prev = q.search_start]]]
    /\ UNCHANGED <<authVars, users, slotVars, svcVars, bookings>>

\* the loop condition holds: one iteration
AvailableSlotsIterate(t) ==
    /\ rq[t].pc = "v_loop"
    /\ LoopCondition(rq[t].search)
    /\ rq' = [rq EXCEPT ![t].search = SearchIteration(rq[t].search)]
    /\ UNCHANGED <<authVars, users, slotVars, svcVars, bookings>>

\* the loop condition fails: `if available:` the slots, else "pretty packed"
AvailableSlotsAnswer(t) ==
    /\ rq[t].pc = "v_loop"
    /\ ~LoopCondition(rq[t].search)
    /\ rq' = [rq EXCEPT ![t] =
                Respond(rq[t], 200, IF rq[t].search.available # <<>>
                                    THEN "slots_open" ELSE "pretty_packed")]
    /\ UNCHANGED <<authVars, users, slotVars, svcVars, bookings>>

\* the request whose calendar query has just returned `events`
SearchEntered(period, returned) ==
    [ToolIdle EXCEPT !.route = "available_slots", !.pc = "v_build",
                     !.stages = <<"auth", "conflicts">>, !.lists = 1,
                     !.search = [NoSearch EXCEPT !.period = period,
                                                 !.events = returned,
                                                 !.search_start = SearchStart(period),
                                                 !.search_end = SearchEnd(period)]]

InitSlots ==
    /\ clock = 0
    /\ pending = <<>>
    /\ unpruned = <<>>
    /\ issued = 0
    /\ statesLock = NoThread
    /\ th = [t \in Threads |-> Idle]
    /\ found = {}
    /\ trues = [k \in 0..Forged |-> 0]
    /\ exchanges = [k \in 0..Forged |-> 0]
    /\ events = 1
    /\ users = <<>>
    /\ defaultCreds = Creds(1, FALSE, FALSE) /\ defaultService = 1
    /\ svcLock = NoThread
    /\ sv = [t \in Threads |-> SvIdle]
    /\ \E period \in Periods : \E evs \in EventLists(period) :
          rq = [t \in Threads |-> IF t = 1 THEN SearchEntered(period, evs) ELSE ToolIdle]
    /\ bookings = 0

NextSlots ==
    \/ \E t \in Threads : AvailableSlotsBuild(t)
    \/ \E t \in Threads : AvailableSlotsIterate(t)
    \/ \E t \in Threads : AvailableSlotsAnswer(t)

SpecSlots == InitSlots /\ [][NextSlots]_vars

\* the handler runs on the event loop: between its statements nothing is
\* awaited, so a request inside the search takes its next step
SpecSlotsFair == SpecSlots /\ WF_vars(NextSlots)

(***************************************************************************)
(* Properties of the CSRF store and the OAuth routes, checked under Spec.  *)
(***************************************************************************)
Returned(r) == r.ret # "unset"

\* C1: for every token, at most one validate_and_consume_state call returns True,
\* under every interleaving of the threads; and a call that starts after some call
\* has found the token present returns False.
C1_OneTimeUse ==
    /\ \A k \in DOMAIN trues : trues[k] <= 1
    /\ \A t \in Threads : (th[t].late /\ Returned(th[t])) => th[t].ret = "False"

\* two calls raced for one token (the loser started before the token was found):
\* one returned True, the other False
C1_Witness ==
    \E t1 \in Threads, t2 \in Threads :
        /\ t1 # t2
        /\ th[t1].op = "validate" /\ th[t2].op = "validate"
        /\ th[t1].token = th[t2].token
        /\ th[t1].ret = "True" /\ th[t2].ret = "False" /\ ~th[t2].late

\* C3: in /auth/callback, handle_callback is reached only by a request whose state
\* is non-empty, equals the cookie and was accepted by validate_and_consume_state;
\* a request answered 403 never invoked the exchange, and only a step of a request
\* that passed the check writes the credential store - whatever its code.
C3_PassedCheck(r) ==
    r.op = "callback" /\ r.token # EmptyToken /\ r.token = r.cookie /\ r.ret = "True"

C3_ExchangeOnlyAfterCheck ==
    /\ [](\A t \in Threads :
            /\ (th[t].exch \/ th[t].pc = "cb_exchange")
                   => C3_PassedCheck(th[t])
            /\ th[t].resp = 403 => (~th[t].exch /\ th[t].email = None))
    /\ [][users' # users =>
            \E t \in Threads : th[t].pc = "cb_exchange" /\ C3_PassedCheck(th[t])
                               /\ th'[t].exch]_vars

\* a request with a well-formed code and a live issued token as state, but another
\* cookie, was answered 403 without an exchange
C3_Witness ==
    \E t \in Threads :
        /\ th[t].op = "callback" /\ th[t].resp = 403 /\ th[t].code = "good"
        /\ th[t].token \in DOMAIN pending /\ th[t].cookie # th[t].token
        /\ ~th[t].exch

\* C4: the handle_callback step leaves _default_creds and _default_service as they
\* were, for every outcome of the exchange; a successful one changes only the store.
C4_ExchangeStep(t) == th[t].pc = "cb_exchange" /\ th'[t].pc = "done"

C4_DefaultSlotUntouched ==
    [][\A t \in Threads : C4_ExchangeStep(t) =>
            /\ defaultCreds' = defaultCreds
            /\ defaultService' = defaultService
            /\ pending' = pending]_vars

\* a successful exchange has saved a tenant's credential while the default slot
\* holds its startup credential
C4_Witness ==
    \E t \in Threads :
        /\ th[t].exch /\ th[t].resp = 200 /\ th[t].email \in Tenants
        /\ th[t].email \in DOMAIN users /\ users[th[t].email] = ExchangedCreds
        /\ defaultCreds = Creds(1, FALSE, TRUE) /\ defaultService = 1

\* C6: a call that found its token in the map returns True exactly when
\* now <= expiry (now being the clock value the call read), and on return the entry
\* is gone from the map in both cases.
C6_ExpiryDecides ==
    \A t \in Threads :
        (th[t].hit /\ Returned(th[t])) =>
            /\ th[t].ret = (IF th[t].now <= th[t].expiry THEN "True" ELSE "False")
            /\ th[t].token \notin DOMAIN pending

\* a token validated exactly at issue time + 600 was accepted and removed
C6_Witness ==
    \E t \in Threads :
        /\ th[t].op = "validate" /\ th[t].hit /\ th[t].ret = "True"
        /\ th[t].now = th[t].expiry /\ th[t].now >= STATE_TTL_SECONDS
        /\ th[t].token \notin DOMAIN pending

\* C7: a step of validate_and_consume_state taken while the call's token is empty or
\* not in the map leaves the map unchanged, and if the call returns there it returns
\* False.
C7_MissStep(t) ==
    /\ th'[t] # th[t]
    /\ th'[t].op \in {"validate", "callback"}
    /\ th[t].pc \in {"idle", "done", "v_lock", "v_body"}
    /\ (th'[t].token = EmptyToken \/ th'[t].token \notin DOMAIN pending)

C7_MissLeavesMap ==
    [][\A t \in Threads : C7_MissStep(t) =>
            /\ pending' = pending
            /\ Returned(th'[t]) => th'[t].ret = "False"]_vars

\* a call with a never-issued token returned False while the map held an entry
C7_Witness ==
    \E t \in Threads :
        /\ th[t].op = "validate" /\ th[t].token = Forged /\ th[t].ret = "False"
        /\ ~th[t].hit /\ DOMAIN pending # {}

\* C8: for every token issued by /auth/connect at most one callback passes the CSRF
\* check and reaches handle_callback; a callback that starts after the token was
\* consumed is answered 403 without an exchange, whatever the first exchange gave.
C8_SingleExchange ==
    /\ \A k \in DOMAIN exchanges : exchanges[k] <= 1
    /\ \A t \in Threads :
          (th[t].op = "callback" /\ th[t].late /\ th[t].pc = "done")
              => (th[t].resp = 403 /\ ~th[t].exch)

\* the token was exchanged once; a later callback with the same state and the
\* matching cookie was rejected
C8_Witness ==
    \E t \in Threads :
        /\ th[t].op = "callback" /\ th[t].late /\ th[t].resp = 403
        /\ th[t].token = th[t].cookie /\ th[t].token \in 1..issued
        /\ exchanges[th[t].token] = 1

(***************************************************************************)
(* Properties of client resolution (SpecSvc) and of the tool route         *)
(* (SpecTools).                                                            *)
(***************************************************************************)
SvReturned(r) == r.pc = "done"

\* a stored blob from which get_client_for_user can never build a client
Unusable(blob) == blob.kind = "corrupt" \/ (~CredsValid(blob) /\ ~NeedsRefresh(blob))

\* C2: for a non-empty identity, resolve_client takes the get_client_for_user
\* path and returns its result: a client of that very tenant over a valid
\* credential, or None; it is None when the tenant has no stored credential or an
\* unusable one, and it is never the default client, whatever the default slot
\* holds.
C2_TenantOnly ==
    \A t \in Threads :
        (sv[t].op = "resolve_client" /\ Truthy(sv[t].email)) =>
            /\ sv[t].via = "tenant"
            /\ ~sv[t].checked
            /\ SvReturned(sv[t]) =>
                 /\ sv[t].ret.email # DEFAULT_EMAIL
                 /\ sv[t].ret.some =>
                      /\ sv[t].ret.email = sv[t].email
                      /\ CredsValid(sv[t].ret.creds)
                      /\ sv[t].email \in DOMAIN users
                 /\ (sv[t].email \notin DOMAIN users) => sv[t].ret = NoClient
                 /\ (sv[t].email \in DOMAIN users /\ Unusable(users[sv[t].email]))
                        => sv[t].ret = NoClient

\* resolve_client("bob@ex.co") has returned None: Bob has no stored credential and
\* the default slot holds a valid one
C2_Witness ==
    \E t \in Threads :
        /\ sv[t].op = "resolve_client" /\ sv[t].email = Bob
        /\ SvReturned(sv[t]) /\ sv[t].ret = NoClient
        /\ Bob \notin DOMAIN users
        /\ CredsValid(defaultCreds)

\* C9: with the identity omitted (None or ""), resolve_client takes the
\* get_default_client path: it reads no credential store, and returns the default
\* client exactly when is_authenticated found the default slot valid, None
\* otherwise, whatever the users table holds.
C9_DefaultOnly ==
    \A t \in Threads :
        (sv[t].op = "resolve_client" /\ sv[t].email \in {None, EmptyStr}) =>
            /\ sv[t].via = "default"
            /\ sv[t].dbops = 0
            /\ SvReturned(sv[t]) =>
                 /\ sv[t].checked
                 /\ sv[t].ret.some = sv[t].auth
                 /\ sv[t].ret.some =>
                      /\ sv[t].ret.email = DEFAULT_EMAIL
                      /\ sv[t].ret.creds.kind = "creds"
                      /\ defaultCreds.kind = "creds"
                 /\ ~sv[t].ret.some => sv[t].ret = NoClient

\* resolve_client("") has returned the default client while the users table holds
\* a tenant's credential
C9_Witness ==
    \E t \in Threads :
        /\ sv[t].op = "resolve_client" /\ sv[t].email = EmptyStr
        /\ SvReturned(sv[t]) /\ sv[t].ret.some
        /\ Alice \in DOMAIN users

\* a well-formed address: the whole string has the shape local@domain.tail
WellFormedEmail(str) == AddressShape(str, Len(str))

\* C10: get_client_for_user on an identity that is not a well-formed address
\* performs no credential-store operation and returns None.
C10_MalformedNeverReachesStore ==
    \A t \in Threads :
        (sv[t].via = "tenant" /\ ~WellFormedEmail(sv[t].email)) =>
            /\ sv[t].dbops = 0
            /\ SvReturned(sv[t]) => sv[t].ret = NoClient

\* the request carries an explicit tenant identity for which no client is
\* resolvable
C5_Unresolvable(r) == Truthy(r.raw.email) /\ r.raw.email \notin DOMAIN users

\* C5: a tool request with an explicit tenant identity for which no client is
\* resolvable never uses the default calendar: no conflict query and no insert
\* is made for it, and its response is a failure.
C5_NoDefaultFallback ==
    \A t \in Threads :
        C5_Unresolvable(rq[t]) =>
            /\ rq[t].lists = 0
            /\ rq[t].inserts = 0
            /\ rq[t].client # DEFAULT_EMAIL
            /\ rq[t].pc = "done" => rq[t].result \notin {"done", "conflict"}

(***************************************************************************)
(* Properties of credential refresh (SpecSvc).                             *)
(***************************************************************************)
\* a get_client_for_user call (direct, or through resolve_client) has returned
\* after reading a stored blob
C11_ReadAndReturned(r) == r.via = "tenant" /\ SvReturned(r) /\ r.dbops > 0 /\ r.blob # NoCreds

\* C11 as stated: a call that read an expired, refreshable credential made one
\* refresh and one store write, and returned a client over the refreshed
\* credential; a call that read a non-expired credential made neither.
C11_RefreshOnceAndPersist ==
    \A t \in Threads :
        C11_ReadAndReturned(sv[t]) =>
            /\ NeedsRefresh(sv[t].blob) =>
                 /\ sv[t].refreshes = 1
                 /\ sv[t].writes = 1
                 /\ sv[t].ret = CalendarClient(RefreshedBy(sv[t].blob, t), sv[t].email)
            /\ (sv[t].blob.kind = "creds" /\ ~sv[t].blob.expired) =>
                 sv[t].refreshes = 0 /\ sv[t].writes = 0

\* C11, for calls whose refresh and whose store write do not raise: a call that
\* read an expired, refreshable credential made exactly one refresh; every call
\* that returns a client made exactly one store write, which carried the
\* refreshed credential, and the client is bound to that credential; no write is
\* made unless the refresh succeeded.  A call that read a non-expired credential
\* made no refresh and no write and returns a client over the stored credential.
C11_RefreshOnceAndPersistOnSuccess ==
    \A t \in Threads :
        C11_ReadAndReturned(sv[t]) =>
            /\ NeedsRefresh(sv[t].blob) =>
                 /\ sv[t].refreshes = 1
                 /\ sv[t].writes \in {0, 1}
                 /\ sv[t].ret.some <=> sv[t].writes = 1
                 /\ sv[t].writes = 1 =>
                      /\ sv[t].creds = RefreshedBy(sv[t].blob, t)
                      /\ \E u \in Threads :
                            users[sv[t].email] = RefreshedBy(sv[t].blob, u)
                      /\ sv[t].ret = CalendarClient(RefreshedBy(sv[t].blob, t), sv[t].email)
            /\ (sv[t].blob.kind = "creds" /\ ~sv[t].blob.expired) =>
                 /\ sv[t].refreshes = 0 /\ sv[t].writes = 0 /\ sv[t].dbops = 1
                 /\ sv[t].ret = CalendarClient(sv[t].blob, sv[t].email)

\* a call has refreshed an expired stored credential, written it back and
\* returned a client over it
C11_Witness ==
    \E t \in Threads :
        /\ C11_ReadAndReturned(sv[t]) /\ NeedsRefresh(sv[t].blob)
        /\ sv[t].writes = 1 /\ sv[t].ret.some
        /\ users[sv[t].email] = sv[t].ret.creds

(***************************************************************************)
(* Properties of is_authenticated and of the default client (SpecSvc).     *)
(***************************************************************************)
\* thread t runs the critical section of is_authenticated in this step
AuthBodyStep(t) == sv[t].pc = "a_body" /\ sv'[t].pc # "a_body"

\* the slot holds a credential that is not expired
SlotFresh == defaultCreds.kind = "creds" /\ ~defaultCreds.expired

\* C12: is_authenticated on a non-expired default credential performs no
\* refresh and leaves the slot unchanged; a second call right after it
\* returns the same value and performs no refresh either.
C12_NoRefreshWhenFresh ==
    /\ [](SlotFresh =>
            \A ok1, ok2 \in BOOLEAN :
                LET a == is_authenticated_body(defaultCreds, defaultService, ok1)
                    b == is_authenticated_body(a.creds, a.service, ok2)
                IN  /\ a.creds = defaultCreds /\ a.service = defaultService
                    /\ b.creds = a.creds /\ b.service = a.service
                    /\ b.ret = a.ret)
    /\ [][\A t \in Threads :
            (AuthBodyStep(t) /\ SlotFresh) =>
                /\ defaultCreds' = defaultCreds
                /\ defaultService' = defaultService
                /\ sv'[t].refreshes = 0
                /\ sv'[t].auth = CredsValid(defaultCreds)]_vars

\* two is_authenticated calls have returned True without a refresh
C12_Witness ==
    \E t1, t2 \in Threads :
        /\ t1 # t2
        /\ \A t \in {t1, t2} :
              /\ sv[t].op = "is_authenticated" /\ SvReturned(sv[t])
              /\ sv[t].checked /\ sv[t].auth /\ sv[t].refreshes = 0
        /\ SlotFresh

\* C13: is_authenticated holds the lock while it runs and releases it when it
\* returns; it returns False when the refresh of an expired, refreshable
\* credential fails and when the slot is empty; otherwise it returns whether the
\* slot now holds a valid credential.  It always returns: there is no
\* exceptional exit.
C13_FalseOnRefreshFailure ==
    [][\A t \in Threads :
          AuthBodyStep(t) =>
              /\ svcLock = t /\ svcLock' = NoThread
              /\ sv'[t].checked
              /\ sv'[t].pc \in {"done", "d_lock"}
              /\ (sv'[t].op = "is_authenticated") => sv'[t].pc = "done"
              /\ defaultCreds = NoCreds => ~sv'[t].auth
              /\ IF NeedsRefresh(defaultCreds) /\ defaultCreds' = defaultCreds
                 THEN ~sv'[t].auth /\ defaultService' = defaultService
                 ELSE sv'[t].auth = (defaultCreds'.kind = "creds" /\ CredsValid(defaultCreds'))]_vars

\* is_authenticated has returned False after a failed refresh: the slot still
\* holds the expired, refreshable credential
C13_Witness ==
    \E t \in Threads :
        /\ sv[t].op = "is_authenticated" /\ SvReturned(sv[t])
        /\ sv[t].checked /\ ~sv[t].auth /\ sv[t].refreshes = 1
        /\ NeedsRefresh(defaultCreds)
        /\ svcLock = NoThread

\* C14: get_default_client checks validity and builds the client in one
\* critical section: a thread that has passed the validity check and has yet to
\* build the client still holds the lock; and under every interleaving with
\* other threads and with credential expiry, every default client returned is
\* bound to a credential that was valid when the client was built.
C14_CheckAndBuildAtomic ==
    \A t \in Threads :
        /\ sv[t].pc = "d_lock" => svcLock = t
        /\ (sv[t].via = "default" /\ SvReturned(sv[t]) /\ sv[t].ret.some)
              => CredsValid(sv[t].ret.creds)

(***************************************************************************)
(* Error policy of get_client_for_user (SpecSvc).                          *)
(***************************************************************************)
\* the call of r read a blob it could not deserialize, or its refresh or its
\* write-back failed
C15_Failed(r) ==
    /\ r.via = "tenant" /\ SvReturned(r) /\ r.dbops > 0 /\ r.blob # NoCreds
    /\ \/ r.blob.kind = "corrupt"
       \/ NeedsRefresh(r.blob) /\ r.writes = 0

\* thread t's get_client_for_user call ends in this step, with a failure
C15_FailingStep(t) ==
    /\ sv[t].pc \in {"g_load", "g_update"}
    /\ SvReturned(sv'[t])
    /\ ~sv'[t].ret.some

\* C15: a get_client_for_user call whose stored credential cannot be
\* deserialized or refreshed returns None (it returns: nothing is raised); a
\* failing call changes no row of the users table, and no call changes the row of
\* a tenant other than its own.
C15_FailureIsNoneAndLocal ==
    /\ [](\A t \in Threads : C15_Failed(sv[t]) => sv[t].ret = NoClient)
    /\ [][/\ DOMAIN users' = DOMAIN users
          /\ \A t \in Threads : C15_FailingStep(t) => users' = users
          /\ \A e \in DOMAIN users :
                users'[e] # users[e] =>
                    \E t \in Threads :
                        /\ sv[t].pc = "g_update" /\ sv[t].email = e
                        /\ users'[e] = sv[t].creds]_vars

\* the first tenant's call has returned None on a corrupt blob or a failed
\* refresh while the second tenant's row is in the table, as it was stored
C15_Witness ==
    \E t \in Threads :
        /\ C15_Failed(sv[t]) /\ sv[t].email = Alice
        /\ sv[t].ret = NoClient
        /\ Bob \in DOMAIN users /\ users[Bob] = Creds(1, FALSE, TRUE)

(***************************************************************************)
(* Outcome of the code exchange (Spec).                                    *)
(***************************************************************************)
\* exchange, identity lookup and store write all succeeded
C16_AllSucceeded(outcome) == outcome.kind = "ok" /\ outcome.email # EmptyStr

\* C16: handle_callback returns the authenticated email exactly when the code
\* exchange, the identity lookup and the store write all succeeded, and then the
\* users table holds exactly one row for that email, with the exchanged
\* credential, and every other row as before; on every failure it returns None
\* and writes nothing.  It always returns, and /auth/callback answers 200 for an
\* email and 400 for None.
C16_EmailIffAllSucceeded ==
    /\ [](\A code \in Codes : \A outcome \in ExchangeOutcomes(code) :
            LET r == handle_callback(outcome, users, defaultCreds, defaultService)
            IN  IF C16_AllSucceeded(outcome)
                THEN r.ret = outcome.email /\ r.ret \in DOMAIN r.users
                ELSE r.ret = None /\ r.users = users)
    /\ [][\A t \in Threads :
            C4_ExchangeStep(t) =>
                IF th'[t].email # None
                THEN /\ th'[t].email \in Tenants
                     /\ th'[t].email \in DOMAIN users'
                     /\ users'[th'[t].email] = ExchangedCreds
                     /\ DOMAIN users' = DOMAIN users \cup {th'[t].email}
                     /\ \A e \in DOMAIN users : e # th'[t].email => users'[e] = users[e]
                     /\ th'[t].resp = 200
                ELSE /\ users' = users
                     /\ th'[t].resp = 400]_vars

\* a callback that passed the state check with a good code was answered 400:
\* the exchange, the identity lookup or the store write failed, and nothing was
\* saved
C16_Witness ==
    \E t \in Threads :
        /\ th[t].op = "callback" /\ th[t].pc = "done" /\ th[t].exch
        /\ th[t].code = "good" /\ th[t].email = None /\ th[t].resp = 400
        /\ users = <<>>

(***************************************************************************)
(* Properties of the schedule-event route (SpecTools).                     *)
(***************************************************************************)
\* the results tool_response wraps with the tool-call id
C17_ToolResults ==
    {"retry_details", "not_connected", "retry_datetime", "conflict", "done", "hiccup"}

\* C17: every response of the tool endpoint has a successful transport status
\* and wraps the tool-call id and a natural-language result, also when no tool
\* call can be extracted from the request body.
C17_AlwaysTransportSuccess ==
    \A t \in Threads :
        rq[t].pc = "done" =>
            /\ rq[t].status = 200
            /\ rq[t].result \in C17_ToolResults

\* C18: in one request create_event is attempted at most twice; a second
\* attempt is made exactly when the first raised; a success ends the request
\* with the confirmation and is followed by no further attempt; two failures
\* end it with the 'technical hiccup' message and without a logged booking.
C18_RetryOnce ==
    \A t \in Threads :
        LET r == rq[t]
        IN  /\ r.creates \in 0..2 /\ r.created \in 0..1
            /\ r.pc = "s_create" =>
                  r.created = 0 /\ r.creates = r.attempt /\ r.creates <= 1
            /\ r.created = 1 => r.pc = "done" /\ r.result = "done"
            /\ (r.pc = "done" /\ r.creates = 1) => r.created = 1
            /\ (r.pc = "done" /\ r.creates = 2 /\ r.created = 0) =>
                  r.result = "hiccup" /\ ~r.logged
            /\ r.result = "hiccup" => r.creates = 2 /\ r.created = 0 /\ ~r.logged
            /\ r.logged => r.created = 1
            /\ r.inserts <= r.creates

\* both attempts reached the provider and failed: the request was answered with
\* the hiccup message and no booking was logged
C18_Witness ==
    \E t \in Threads :
        /\ rq[t].pc = "done" /\ rq[t].result = "hiccup"
        /\ rq[t].creates = 2 /\ rq[t].inserts = 2 /\ ~rq[t].logged
        /\ bookings = 0

\* C19: an exception of the conflict query is not fatal: the request goes on to
\* the create stage in the very state a query without conflicts leaves it in,
\* and a failure response is given only if the create attempts fail.
C19_ConflictFailureNonFatal ==
    \A t \in Threads :
        LET r == rq[t]
        IN  /\ AfterConflicts(r, "error") = AfterConflicts(r, "free")
            /\ r.conflicts = "error" =>
                  /\ r.pc \in {"s_create", "done"}
                  /\ r.pc = "done" => r.creates >= 1 /\ r.result \in {"done", "hiccup"}
                  /\ r.result = "hiccup" => r.creates = 2 /\ r.created = 0
                  /\ r.created = 1 => r.result = "done"

\* the provider's list call failed and the event was created and confirmed
C19_Witness ==
    \E t \in Threads :
        /\ rq[t].conflicts = "error" /\ rq[t].lists = 1
        /\ rq[t].pc = "done" /\ rq[t].result = "done" /\ rq[t].created = 1

\* the stages of a request, in their order
C20_Rank(stage) ==
    CASE stage = "validate" -> 1
      [] stage = "auth" -> 2
      [] stage = "parse" -> 3
      [] stage = "conflicts" -> 4
      [] stage = "create" -> 5
      [] stage = "log" -> 6
      [] stage = "respond" -> 7

C20_Ran(r, stage) == \E i \in 1..Len(r.stages) : r.stages[i] = stage

\* C20: the stages of one request run in the order Validate Args, auth check,
\* Parse Datetime, Check Conflicts, Create Event (at most twice), Log, Respond:
\* each stage starts after its predecessor has run, no event is created before
\* the conflict check was attempted, no booking is logged before a create
\* succeeded, and a stage that short-circuits to the response runs no later
\* stage.
C20_StageOrder ==
    \A t \in Threads :
        LET r == rq[t]
            n == Len(r.stages)
        IN  /\ \A i \in 1..(n - 1) :
                  \/ C20_Rank(r.stages[i]) < C20_Rank(r.stages[i + 1])
                  \/ r.stages[i] = "create" /\ r.stages[i + 1] = "create"
            /\ C20_Ran(r, "auth") => C20_Ran(r, "validate")
            /\ C20_Ran(r, "parse") => C20_Ran(r, "auth")
            /\ C20_Ran(r, "conflicts") => C20_Ran(r, "parse")
            /\ C20_Ran(r, "create") => C20_Ran(r, "conflicts") /\ r.conflicts # "none"
            /\ C20_Ran(r, "log") => C20_Ran(r, "create") /\ r.created = 1
            /\ r.creates > 0 => r.conflicts # "none"
            /\ r.logged => r.created = 1 /\ C20_Ran(r, "log")
            /\ (r.pc = "done" /\ r.status # 500) <=> C20_Ran(r, "respond")
            /\ r.result = "retry_details" => r.stages = <<"validate", "respond">>
            /\ r.result = "not_connected" => r.stages = <<"validate", "auth", "respond">>
            /\ r.result = "retry_datetime" =>
                  r.stages = <<"validate", "auth", "parse", "respond">>
            /\ r.result = "conflict" =>
                  /\ r.stages = <<"validate", "auth", "parse", "conflicts", "respond">>
                  /\ r.creates = 0 /\ ~r.logged

\* a request went through every stage, with a retried create
C20_Witness ==
    \E t \in Threads :
        rq[t].stages = <<"validate", "auth", "parse", "conflicts",
                         "create", "create", "log", "respond">>

(***************************************************************************)
(* The booking log (SpecTools).                                            *)
(***************************************************************************)
\* number of log_booking calls the request has made
C21_LogAttempts(r) == Cardinality({i \in 1..Len(r.stages) : r.stages[i] = "log"})

\* C21 as stated: a request whose create succeeded has its booking recorded,
\* 'Done!' is returned only for a request whose booking was recorded, and a
\* request whose create failed has none.
C21_OneRecordPerCreate ==
    \A t \in Threads :
        /\ rq[t].created = 1 => rq[t].logged
        /\ rq[t].result = "done" => rq[t].logged
        /\ rq[t].created = 0 => ~rq[t].logged

\* C21, with a log_booking that may raise: every successful create is followed
\* by exactly one log_booking call, which appends exactly one record when it
\* succeeds and none when it raises; 'Done!' is returned exactly for the
\* requests whose create succeeded, recorded or not; a record is appended only
\* by the step of a request whose create has just succeeded, and never for a
\* request whose creates failed.
C21_OneRecordPerLoggedCreate ==
    /\ [](\A t \in Threads :
            /\ C21_LogAttempts(rq[t]) = rq[t].created
            /\ rq[t].logged => rq[t].created = 1
            /\ rq[t].result = "done" <=> rq[t].created = 1
            /\ rq[t].result = "hiccup" => ~rq[t].logged /\ C21_LogAttempts(rq[t]) = 0)
    /\ [][/\ bookings' \in {bookings, bookings + 1}
          /\ \A t \in Threads :
               (rq[t].pc = "s_create" /\ rq'[t].created = 1) =>
                   bookings' = (IF rq'[t].logged THEN bookings + 1 ELSE bookings)
          /\ bookings' # bookings =>
               \E t \in Threads :
                   /\ rq[t].pc = "s_create" /\ rq'[t].created = 1
                   /\ rq'[t].logged /\ rq'[t].result = "done"]_vars

\* an event was created on the second attempt and its booking recorded: one
\* row, one confirmation
C21_Witness ==
    \E t \in Threads :
        /\ rq[t].pc = "done" /\ rq[t].result = "done"
        /\ rq[t].creates = 2 /\ rq[t].created = 1 /\ rq[t].logged
        /\ bookings = 1

(***************************************************************************)
(* Error propagation out of the calendar core (SpecTools).                 *)
(***************************************************************************)
\* C22: the core reports a missing, invalid or unrefreshable default credential
\* to the handler as a None/False return value and never as an exception: no
\* check_conflicts or create_event call of a request raises for want of a
\* valid default credential.
C22_CoreNeverRaises ==
    \A t \in Threads : rq[t].raised # NotAuthenticated

\* C23: once the tool call is extracted, every exception of a later stage is
\* caught in the handler and turned into a natural-language tool response: a
\* request whose tool call was extracted is answered with status 200 and one of
\* the handler's texts, never by an exception that leaves the handler.
C23_NoExceptionEscapes ==
    \A t \in Threads :
        (rq[t].pc = "done" /\ C20_Ran(rq[t], "validate")) =>
            /\ rq[t].status # 500
            /\ rq[t].result \in C17_ToolResults

(***************************************************************************)
(* Blocking calls and the event loop (SpecTools).                          *)
(***************************************************************************)
\* C24: no blocking remote call (calendar list, calendar insert, credential
\* refresh) of a request is executed on the event loop: each is dispatched to
\* a worker thread.
C24_NoRemoteCallOnEventLoop ==
    \A t \in Threads : rq[t].loop = {}

(***************************************************************************)
(* The two locks (SpecBoot).                                               *)
(***************************************************************************)
\* thread t takes a step of a service call, of a CSRF-store call
SvStep(t) == sv'[t] # sv[t]
ThStep(t) == th'[t] # th[t]

\* C25 as stated: a thread that holds the CSRF-store lock or the
\* default-credential lock makes no store read or write and no remote call in
\* its step.
C25_NoBlockingUnderLock ==
    [][\A t \in Threads :
          /\ (svcLock = t /\ SvStep(t)) =>
                /\ sv'[t].dbops = sv[t].dbops /\ users' = users
                /\ sv'[t].refreshes = sv[t].refreshes
          /\ (statesLock = t /\ ThStep(t)) =>
                UNCHANGED <<users, slotVars, svcVars, toolVars>>]_vars

\* C25, with the refresh: a thread that holds the CSRF-store lock touches the
\* token map only; a thread that holds the default-credential lock makes no
\* store read or write (and no calendar call), and the one remote call made under
\* that lock is the refresh of an expired, refreshable credential in
\* is_authenticated; every store read or write is made by a thread that holds
\* neither lock.
C25_OnlyRefreshUnderLock ==
    [][\A t \in Threads :
          /\ (svcLock = t /\ SvStep(t)) =>
                /\ sv'[t].dbops = sv[t].dbops /\ users' = users
                /\ sv'[t].refreshes # sv[t].refreshes =>
                      sv[t].pc = "a_body" /\ NeedsRefresh(defaultCreds)
          /\ (statesLock = t /\ ThStep(t)) =>
                UNCHANGED <<users, slotVars, svcVars, toolVars>>
          /\ (SvStep(t) /\ (sv'[t].dbops # sv[t].dbops \/ users' # users)) =>
                svcLock # t /\ statesLock # t]_vars

\* is_authenticated has refreshed the default credential inside its critical
\* section, and a token was registered inside the CSRF store's
C25_Witness ==
    \E t \in Threads :
        /\ sv[t].op = "is_authenticated" /\ SvReturned(sv[t])
        /\ sv[t].refreshes = 1 /\ sv[t].auth /\ sv[t].dbops = 0
        /\ DOMAIN pending # {}
        /\ svcLock = NoThread /\ statesLock = NoThread

(***************************************************************************)
(* Concurrent refreshes of one tenant (SpecBoot).                          *)
(***************************************************************************)
\* the get_client_for_user call of r read the tenant's expired, refreshable
\* credential, refreshed it and wrote it back, and has returned
C26_Refreshed(r) ==
    r.via = "tenant" /\ SvReturned(r) /\ NeedsRefresh(r.blob) /\ r.writes = 1

C27_InPlaceRefresh ==
    \E t \in Threads :
        /\ sv[t].pc = "a_body" /\ svcLock = t /\ sv'[t].pc # "a_body"
        /\ NeedsRefresh(defaultCreds)
        /\ defaultCreds' = Refreshed(defaultCreds)
        /\ defaultService' = defaultCreds'.tok

\* the held access token runs out: no method of the service runs
C27_Expiry ==
    /\ defaultCreds.kind = "creds"
    /\ defaultCreds' = [defaultCreds EXCEPT !.expired = TRUE]
    /\ defaultService' = defaultService
    /\ sv' = sv /\ users' = users

\* C27: the default slot is assigned only by the constructor.  Once the
\* service is constructed, no step of is_authenticated, get_default_client,
\* resolve_client, get_client_for_user, get_auth_url or handle_callback makes
\* an empty slot non-empty or puts another credential into it: a step leaves
\* the slot as it is, or is the in-place refresh made by is_authenticated
\* under the lock (or the passing of the token's lifetime, which no method
\* makes).  Before that, the slot changes only in the constructor's own step.
C27_SlotAssignedOnlyAtConstruction ==
    [][/\ Constructed =>
            /\ \/ UNCHANGED slotVars
               \/ C27_InPlaceRefresh
               \/ C27_Expiry
            /\ defaultCreds.kind = defaultCreds'.kind
            /\ (defaultCreds.kind = "creds" =>
                   defaultCreds'.refresh = defaultCreds.refresh)
            /\ Constructed'
       /\ ~Constructed =>
            \/ UNCHANGED slotVars
            \/ \E t \in Threads : sv[t].pc = "c_load" /\ sv'[t].pc = "done"]_vars

\* after construction the held credential expired and an is_authenticated call
\* refreshed it in place
C27_Witness ==
    /\ Constructed
    /\ defaultCreds = Refreshed(Refreshed(Creds(1, TRUE, TRUE)))
    /\ defaultService = defaultCreds.tok
    /\ \E t \in Threads :
          /\ sv[t].op = "is_authenticated" /\ SvReturned(sv[t])
          /\ sv[t].refreshes = 1 /\ sv[t].auth

\* after construction with no environment credential a callback connected a
\* tenant and the slot is still empty
C27_EmptyStaysEmpty ==
    /\ Constructed
    /\ defaultCreds = NoCreds
    /\ \E t \in Threads :
          sv[t].op = "handle_callback" /\ sv[t].email = Bob /\ Bob \in DOMAIN users

(***************************************************************************)
(* Construction of the service (SpecBoot).                                 *)
(***************************************************************************)
\* the constructor has returned and no call has been made yet
C28_JustConstructed ==
    /\ sv[1].op = "__init__" /\ SvReturned(sv[1])
    /\ events = 0

C28_SlotEmpty == defaultCreds = EmptySlot.creds /\ defaultService = EmptySlot.service

\* C28 as stated: construction never raises; without an environment credential
\* the slot is empty, and with one the slot holds it after construction (as
\* loaded, or refreshed if it was expired and refreshable).
C28_StartupHoldsEnvCredential ==
    C28_JustConstructed =>
        /\ ~sv[1].raised
        /\ sv[1].blob = NoEnv => C28_SlotEmpty
        /\ sv[1].blob # NoEnv => defaultCreds \in {sv[1].blob, Refreshed(sv[1].blob)}

\* C28, amended: construction never raises.  Without an environment credential
\* the slot is empty.  An environment credential that deserializes and is
\* valid is held as loaded; one that is expired and refreshable is held
\* refreshed if the refresh succeeds; a blob that does not deserialize, a
\* credential that is expired without a refresh token, and a refresh that
\* raises all leave the slot empty.  A held credential is valid and the service
\* handle is built for it.
C28_StartupNeverFails ==
    C28_JustConstructed =>
        LET env == sv[1].blob
        IN  /\ ~sv[1].raised
            /\ env = NoEnv => C28_SlotEmpty
            /\ CredsValid(env) => defaultCreds = env
            /\ NeedsRefresh(env) =>
                 /\ sv[1].refreshes = 1
                 /\ defaultCreds = Refreshed(env) \/ C28_SlotEmpty
            /\ (env.kind = "corrupt" \/ (env.kind = "creds" /\ env.expired /\ ~env.refresh)) =>
                 C28_SlotEmpty
            /\ ~C28_SlotEmpty =>
                 CredsValid(defaultCreds) /\ defaultService = defaultCreds.tok

\* constructed with an environment credential that is expired and has no
\* refresh token: no error, and the slot is empty
C28_Witness ==
    /\ C28_JustConstructed
    /\ sv[1].blob = Creds(1, TRUE, FALSE)
    /\ ~sv[1].raised
    /\ C28_SlotEmpty

(***************************************************************************)
(* Issuance of state tokens (Spec).                                        *)
(***************************************************************************)
\* thread t leaves the critical section of _issue_state_token in this step
C29_Issues(t) == th[t].pc = "i_body" /\ th'[t].pc = "done"

\* C29: when _issue_state_token has registered its token at its clock reading
\* now, the map holds that token with expiry now + 600 and no entry whose
\* expiry is earlier than now, and the token is what the call returns.  An
\* entry enters the map only this way and its expiry never changes afterwards,
\* so in every state each entry's expiry is its own issue time plus 600.
C29_IssueRegistersWithTTL ==
    [][/\ \A t \in Threads :
            C29_Issues(t) =>
                LET token == th[t].token
                    now == th[t].now
                IN  /\ token \in DOMAIN pending'
                    /\ pending'[token] = now + STATE_TTL_SECONDS
                    /\ \A k \in DOMAIN pending' : ~(pending'[k] < now)
                    /\ th'[t].cookie = token
       /\ \A k \in DOMAIN pending \cap DOMAIN pending' : pending'[k] = pending[k]
       /\ \A k \in DOMAIN pending' \ DOMAIN pending :
            \E t \in Threads :
                C29_Issues(t) /\ th[t].token = k /\ pending'[k] = th[t].now + 600]_vars

\* a second token was issued after the first one's lifetime: the first entry
\* was pruned, never having been presented, and the second is registered
C29_Witness ==
    /\ issued = 2
    /\ DOMAIN pending = {2}
    /\ 1 \notin found
    /\ \E t \in Threads :
          /\ th[t].op = "connect" /\ th[t].pc = "done" /\ th[t].token = 2
          /\ pending[2] = th[t].now + STATE_TTL_SECONDS
          /\ th[t].now > STATE_TTL_SECONDS

C30_DifferOnlyOnStaleReading ==
    \A t \in Threads :
        (th[t].sret # "unset" /\ th[t].ret # th[t].sret) =>
            /\ th[t].ret = "False" /\ th[t].sret = "True"
            /\ th[t].now < clock

(***************************************************************************)
(* The CSRF check of every route that exchanges a code (SpecLegacy).       *)
(***************************************************************************)
\* a request to a callback route, of the auth router or of the legacy server
C31_CallbackRequest(r) == r.op \in {"callback", "auth_callback"}

\* C31: a callback request whose state token did not pass
\* validate_and_consume_state with a matching cookie (it is missing,
\* mismatched, unknown or expired) never reaches handle_callback and is
\* answered with a client-error status, on both callback routes.
C31_EveryRouteChecksState ==
    \A t \in Threads :
        (C31_CallbackRequest(th[t]) /\ th[t].pc = "done" /\ th[t].ret # "True") =>
            /\ ~th[t].exch
            /\ th[t].resp \in 400..499

(***************************************************************************)
(* Conflicts and availability (SpecRoutes).                                *)
(***************************************************************************)
\* C32: a scheduling request whose conflict query returned a non-empty list
\* makes no create call, creates no event and logs no booking, and is answered
\* with the conflict; on schedule-event and on /api/direct/schedule alike.
C32_ConflictBlocksCreate ==
    \A t \in Threads :
        LET r == rq[t]
        IN  (r.route \in {"schedule_event", "direct_schedule"} /\ r.conflicts = "busy") =>
                /\ r.creates = 0 /\ r.inserts = 0 /\ r.created = 0
                /\ ~r.logged
                /\ ~C20_Ran(r, "create") /\ ~C20_Ran(r, "log")
                /\ r.pc = "done" /\ r.status = 200 /\ r.result = "conflict"

\* one request of each route found a conflict, and the bookings table is empty
C32_Witness ==
    /\ \E t \in Threads :
          /\ rq[t].route = "schedule_event" /\ rq[t].conflicts = "busy"
          /\ rq[t].lists = 1 /\ rq[t].result = "conflict"
    /\ \E t \in Threads :
          /\ rq[t].route = "direct_schedule" /\ rq[t].conflicts = "busy"
          /\ rq[t].lists = 1 /\ rq[t].result = "conflict"
    /\ bookings = 0

\* C34: check-availability answers "is available" only when the conflict query
\* was made, completed and returned an empty list; a query that raises is
\* answered with the "having trouble checking the calendar" message.
C34_AvailableOnlyAfterEmptyList ==
    \A t \in Threads :
        LET r == rq[t]
        IN  r.route = "check_availability" =>
                /\ r.result = "available" =>
                      /\ r.conflicts = "free" /\ r.lists = 1 /\ r.raised = "none"
                      /\ C20_Ran(r, "conflicts")
                /\ (r.pc = "done" /\ r.conflicts = "error") =>
                      r.result = "trouble" /\ r.status = 200
                /\ (r.pc = "done" /\ r.conflicts = "free") => r.result = "available"
                /\ r.creates = 0 /\ ~r.logged

\* the provider's list call raised and the request was answered "having trouble"
C34_Witness ==
    \E t \in Threads :
        /\ rq[t].route = "check_availability" /\ rq[t].pc = "done"
        /\ rq[t].conflicts = "error" /\ rq[t].lists = 1 /\ rq[t].raised = "HttpError"
        /\ rq[t].result = "trouble"

(***************************************************************************)
(* A callback whose state and cookie differ (Spec).                        *)
(***************************************************************************)
\* thread t takes a /auth/callback request in this step, and the request's
\* state is empty or differs from its cookie
C33_MismatchArrives(t) ==
    /\ Free(th[t]) /\ th'[t] # th[t]
    /\ th'[t].op = "callback"
    /\ (th'[t].token = EmptyToken \/ th'[t].token # th'[t].cookie)

\* C33: a /auth/callback request whose state is empty or differs from the
\* cookie is answered 403 at once and consumes nothing: no lookup is made and
\* the token map is unchanged, so a token it names stays usable by a later
\* callback that presents the matching cookie.
C33_MismatchConsumesNothing ==
    [][\A t \in Threads :
          C33_MismatchArrives(t) =>
              /\ th'[t].pc = "done" /\ th'[t].resp = 403
              /\ ~th'[t].hit /\ ~th'[t].exch /\ th'[t].ret = "unset"
              /\ pending' = pending
              /\ found' = found /\ trues' = trues /\ exchanges' = exchanges
              /\ users' = users]_vars

\* a callback naming an issued token with another cookie was rejected with 403
\* while the token was unused, and a callback naming the same token with the
\* matching cookie then passed the check once
C33_Witness ==
    \E t1, t2 \in Threads :
        /\ th[t1].op = "callback" /\ th[t1].pc = "done" /\ th[t1].resp = 403
        /\ th[t1].token \in 1..issued /\ th[t1].cookie # th[t1].token
        /\ ~th[t1].late
        /\ th[t2].op = "callback" /\ th[t2].token = th[t1].token
        /\ th[t2].cookie = th[t2].token /\ th[t2].ret = "True"
        /\ trues[th[t1].token] = 1

(***************************************************************************)
(* A deleted tenant is not resurrected by a refresh (SpecTenant).          *)
(***************************************************************************)
\* this step is the persisting statement of some get_client_for_user call
C35_PersistStep == \E t \in Threads : sv[t].pc = "g_update" /\ sv'[t] # sv[t]

\* thread t's get_client_for_user reads the store in this step
C35_ReadStep(t) == sv[t].pc = "g_read" /\ sv'[t] # sv[t]

\* C35: a refresh in flight never resurrects a deleted tenant: the statement
\* that persists a refreshed credential never creates a row (so after a
\* delete_user that came between the call's read and its persist, the store
\* holds no row for the email), and a get_client_for_user that reads the store
\* while the row is absent returns None; the row comes back only through a
\* step other than the persist, the save of a completed OAuth exchange.
C35_NoResurrection ==
    [][/\ \A e \in Tenants :
            (e \notin DOMAIN users /\ C35_PersistStep) => e \notin DOMAIN users'
       /\ \A e \in Tenants :
            (e \notin DOMAIN users /\ e \in DOMAIN users') =>
                \E t \in Threads : /\ sv'[t].op = "handle_callback"
                                   /\ sv'[t].email = e
                                   /\ users'[e] = ExchangedCreds
       /\ \A t \in Threads :
            (C35_ReadStep(t) /\ sv[t].email \notin DOMAIN users) =>
                sv'[t].pc = "done" /\ sv'[t].ret = NoClient]_vars

\* a get_client_for_user call read the row and refreshed the credential, the
\* row was deleted while it still held the unrefreshed credential, the call
\* then executed its update, and the store holds no row for the email
C35_Witness ==
    \E t1, t2 \in Threads :
        /\ sv[t1].op = "get_client_for_user" /\ sv[t1].pc = "done"
        /\ sv[t1].writes = 1 /\ NeedsRefresh(sv[t1].blob)
        /\ sv[t2].op = "delete_user" /\ sv[t2].pc = "done"
        /\ sv[t2].email = sv[t1].email /\ sv[t2].blob = sv[t1].blob
        /\ sv[t1].email \notin DOMAIN users

(***************************************************************************)
(* The default-credential lock and the CSRF-store lock (SpecLocks).        *)
(***************************************************************************)
\* thread t is about to enter `with self._lock:` / `with _states_lock:`
C36_AtSvcLock(t) == sv[t].pc \in {"a_lock", "d_lock"}
C36_AtStatesLock(t) == th[t].pc \in {"i_lock", "v_lock"}

\* thread t is inside the block of `with self._lock:` / `with _states_lock:`
C36_InSvcBlock(t) == sv[t].pc \in {"a_body", "d_body"}
C36_InStatesBlock(t) == th[t].pc \in {"i_body", "v_body"}

\* C36: the two locks are deadlock-free: no thread arrives at the acquisition
\* of a lock it already holds, no thread holds both locks at once, and a lock
\* is held only by a thread inside the `with` block that took it, whose next
\* step (enabled in every such state) leaves the block and releases the lock,
\* on the path where the refresh raises inside is_authenticated as on the others.
C36_LocksDeadlockFree ==
    \A t \in Threads :
        /\ svcLock = t => ~C36_AtSvcLock(t)
        /\ statesLock = t => ~C36_AtStatesLock(t)
        /\ ~(svcLock = t /\ statesLock = t)
        /\ svcLock = t <=> C36_InSvcBlock(t)
        /\ statesLock = t <=> C36_InStatesBlock(t)
        /\ svcLock = t => ENABLED (AuthBody(t) \/ DefaultBody(t))
        /\ statesLock = t => ENABLED (IssueBody(t) \/ ValidateBody(t))
        /\ (C36_AtSvcLock(t) /\ svcLock = NoThread) => ENABLED (AuthLock(t) \/ DefaultLock(t))
        /\ (C36_AtStatesLock(t) /\ statesLock = NoThread) =>
               ENABLED (IssueLock(t) \/ ValidateLock(t))

\* is_authenticated took the lock, the refresh of the expired default
\* credential raised inside the block, and the lock is free again
C36_Witness ==
    \E t \in Threads :
        /\ sv[t].op = "is_authenticated" /\ sv[t].pc = "done"
        /\ sv[t].checked /\ sv[t].refreshes = 1 /\ ~sv[t].auth
        /\ NeedsRefresh(defaultCreds)
        /\ svcLock = NoThread

(***************************************************************************)
(* The slot search of available-slots (SpecSlots, SpecSlotsFair).          *)
(***************************************************************************)
\* the request of thread t has run at least one iteration of the search loop
C37_Iterated(t) == rq[t].route = "available_slots" /\ rq[t].search.iters > 0

\* C37: the slot-search loop terminates for every search window and every
\* list of busy intervals (overlapping, unordered, zero-length and
\* window-exceeding ones included): each iteration leaves the cursor strictly
\* later than it found it, so the iterations run never outnumber the seconds
\* the cursor has advanced, and every request that enters the search is answered.
C37_LoopTerminates ==
    /\ [](\A t \in Threads :
            C37_Iterated(t) =>
                /\ rq[t].search.current > rq[t].search.prev
                /\ rq[t].search.iters <= rq[t].search.current - rq[t].search.search_start)
    /\ <>(\A t \in Threads : rq[t].pc \in {"idle", "done"})

\* the loop has met, in an unordered list, a zero-length busy time and one
\* that reaches past the window's end, and has been left
C37_Witness ==
    \E t \in Threads :
        LET q == rq[t].search
        IN  /\ C37_Iterated(t) /\ rq[t].pc = "done"
            /\ q.iters >= 2
            /\ Len(q.busy) = 2
            /\ q.busy[1].start > q.busy[2].start
            /\ q.busy[2].start = q.busy[2].end
            /\ q.busy[1].end > q.search_end
            /\ Overlaps(q.search_start, q.busy[2])

\* the request of thread t has left available_slots after its calendar query
C38_Answered(t) == rq[t].route = "available_slots" /\ rq[t].pc = "done"

\* the 30-minute interval beginning at `start` and the timed event e share an instant
C38_Meets(start, e) ==
    ~e.allday /\ e.start < e.end /\ start < e.end /\ e.start < start + SlotSeconds

\* the suggestions of a request are at most three 30-minute intervals inside
\* the window, free of the returned events, at least 60 minutes apart
C38_Suggestions(q, evs) ==
    LET S == [i \in DOMAIN q.available |-> SuggestedStart(q.available[i])]
    IN  /\ Len(q.available) <= 3
        /\ \A i \in DOMAIN S :
              /\ q.search_start <= S[i] /\ S[i] + SlotSeconds <= q.search_end
              /\ \A j \in DOMAIN evs : ~C38_Meets(S[i], evs[j])
        /\ \A i \in DOMAIN S : i > 1 => S[i] >= S[i - 1] + StepSeconds

\* C38: every slot suggested by available-slots is a 30-minute interval inside
\* the search window of the requested period that overlaps none of the busy
\* intervals the calendar returned; at most 3 slots are suggested, in strictly
\* increasing order and at least 60 minutes apart; and when a returned event
\* is an all-day event no slot is suggested.
C38_SuggestedSlotsAreFree ==
    \A t \in Threads :
        C38_Answered(t) =>
            /\ C38_Suggestions(rq[t].search, rq[t].search.events)
            /\ (\E i \in DOMAIN rq[t].search.events : rq[t].search.events[i].allday)
                   => (rq[t].result = "all_day" /\ rq[t].search.available = <<>>)

\* the same, for answers to calendars whose events all end on a whole minute
C38_FreeWhenWholeMinutes ==
    \A t \in Threads :
        (/\ C38_Answered(t)
         /\ \A i \in DOMAIN rq[t].search.events : rq[t].search.events[i].end % 60 = 0)
            => C38_Suggestions(rq[t].search, rq[t].search.events)

\* a 30-minute interval inside the window of q that the loop's own test finds
\* free of every busy time begins at `start`
C39_FreeAt(q, start) ==
    /\ q.search_start <= start /\ start + SlotSeconds <= q.search_end
    /\ \A i \in DOMAIN q.busy : ~Overlaps(start, q.busy[i])

\* the half minutes of the window of q
C39_Starts(q) ==
    {q.search_start + 30 * k : k \in 0..((q.search_end - q.search_start) \div 30)}

\* C39: available-slots answers that the day is pretty packed only when the
\* search window contains no free 30-minute interval: when some 30-minute
\* interval inside the window overlaps no busy interval (and no event is
\* all-day), at least one slot is suggested.
C39_PackedOnlyWhenNoFreeSlot ==
    \A t \in Threads :
        (C38_Answered(t) /\ rq[t].result = "pretty_packed") =>
            ~\E start \in C39_Starts(rq[t].search) : C39_FreeAt(rq[t].search, start)

====
